---- MODULE Spec2Model ----
(***************************************************************************)
(* A model of the evoxy forward HTTP proxy: the incremental HTTP parser    *)
(* (src/http.cc), the IOBuffer and event endpoint (src/connection.h), the  *)
(* Frontend / Backend progress machine (src/connection.cc) and the         *)
(* fixed-capacity pool (src/pool.h).                                       *)
(*                                                                         *)
(* Bytes are one-character strings.  Memory is the session's               *)
(* buffer_holder[2][buf_size], flattened: an address is an index 0 ..      *)
(* 2*buf_size-1, and a buffer::string is a record [b |-> begin address,    *)
(* n |-> length].  A cleared string has b = NULL.                          *)
(***************************************************************************)
EXTENDS Integers, Sequences, FiniteSets, TLC

VARIABLES
    parser,     \* the HTTPParser object (src/http.h)
    mem,        \* Proxy::buffer_holder, flattened
    fbuf,       \* Proxy::frontend_buffer (an IOBuffer)
    bbuf,       \* Proxy::backend_buffer (an IOBuffer)
    cin,        \* bytes the client has yet to deliver to the proxy
    msg,        \* the whole message the client set out to deliver
    status,     \* the Status returned by the last parse_head / parse_body call
    calls,      \* number of parser calls made on the current message
    asserts,    \* TRUE while no assert() of the code has failed
    pool,       \* the Pool<Proxy>: head of the free list and each node's next
    slots,      \* per pool node, the endpoints of the session built in it
    fds,        \* the file descriptors handed out and how often each was closed
    sess,       \* the Proxy session under study: progress and its two endpoints
    net,        \* the client, the origin server and the network between them
    alloc,      \* a user of a Pool by itself: the blocks it holds, its last calls
    cache,      \* a NameCache (src/cache.h) with its two node pools and the clock
    conv        \* a call of buffer::stol: its arguments and what it returned

parservars == <<parser, mem, fbuf, bbuf, cin, msg, status, calls, asserts>>
poolvars == <<pool, slots, fds>>
proxyvars == <<sess, net>>
libvars == <<alloc, cache, conv>>
vars == <<parser, mem, fbuf, bbuf, cin, msg, status, calls, asserts,
          pool, slots, fds, sess, net, alloc, cache, conv>>

-----------------------------------------------------------------------------
(* Bounds of the model *)

\* size_t / long width in bits, scaled down from 64
SizeBits == 16
\* Proxy::buf_size, scaled down from 4096
BufSize == 128
\* chunks per chunked body in the body harness
MaxChunks == 2
\* value at which the observer counter calls of the head harness saturates
MaxCalls == 3
\* capacity of the session pool
PoolSize == 3
\* the requests a client sends over one connection
MaxRequests == 2
\* the bytes a segment from the client carries at most
Mss == 24
\* file descriptors the operating system hands out in one run
MaxFds == 4
\* NameCache::item_lifetime in seconds (--cache-lifetime)
Lifetime == 1
\* the seconds the clock runs in the cache harness
MaxTime == 2
\* the largest capacity of the NameCache in the cache harness (--name-cache)
CacheSize == 2
\* the digits of the numbers given to buffer::stol in the conversion harness
MaxDigits == 5
\* the digits of a chunk-size marker in the marker harness
MaxMarker == 5

\* F applied to the value e: binds the result of a call the way a C++ local
\* variable does, so that it is computed once (the value is taken out of a
\* one-element set, which TLC computes before it applies F)
Let(e, F(_)) == CHOOSE y \in {F(x) : x \in {e}} : TRUE

-----------------------------------------------------------------------------
(* Characters and byte strings *)

NULL == -1
npos == -1

CR == "\r"
LF == "\n"
SP == " "
HT == "\t"

CRLF == <<CR, LF>>
WSP == <<HT, SP>>
LWSP == <<HT, SP, CR, LF>>

DigitChars == <<"0", "1", "2", "3", "4", "5", "6", "7", "8", "9">>
LowerChars == <<"a", "b", "c", "d", "e", "f", "g", "h", "i", "j", "k", "l", "m",
                "n", "o", "p", "q", "r", "s", "t", "u", "v", "w", "x", "y", "z">>
UpperChars == <<"A", "B", "C", "D", "E", "F", "G", "H", "I", "J", "K", "L", "M",
                "N", "O", "P", "Q", "R", "S", "T", "U", "V", "W", "X", "Y", "Z">>

IndexIn(seq, c) == IF \E i \in 1..Len(seq) : seq[i] = c
                   THEN CHOOSE i \in 1..Len(seq) : seq[i] = c
                   ELSE 0

DigitSet == {DigitChars[i] : i \in 1..Len(DigitChars)}
LowerSet == {LowerChars[i] : i \in 1..Len(LowerChars)}
UpperSet == {UpperChars[i] : i \in 1..Len(UpperChars)}

isdigit(c) == c \in DigitSet
isupper(c) == c \in UpperSet
islower(c) == c \in LowerSet
isalpha(c) == isupper(c) \/ islower(c)

ToUpperTable == [c \in LowerSet |-> UpperChars[IndexIn(LowerChars, c)]]

toupper(c) == IF islower(c) THEN ToUpperTable[c] ELSE c

\* ci_char_traits::eq
ci_eq(c1, c2) == toupper(c1) = toupper(c2)

\* the bytes of s from 0-based position pos on
Drop(s, pos) == SubSeq(s, pos + 1, Len(s))

\* basic_string::find(ch, pos): 0-based index of the first ch at or after pos
FindChar(s, ch, pos) ==
    IF \E i \in pos..(Len(s) - 1) : s[i + 1] = ch
    THEN CHOOSE i \in pos..(Len(s) - 1) :
             /\ s[i + 1] = ch
             /\ \A j \in pos..(i - 1) : s[j + 1] /= ch
    ELSE npos

\* basic_string::find(str): 0-based index of the first occurrence of str
RECURSIVE FindStrFrom(_, _, _)
FindStrFrom(s, str, pos) ==
    LET i == FindChar(s, str[1], pos) IN
    IF i = npos \/ i + Len(str) > Len(s) THEN npos
    ELSE IF SubSeq(s, i + 1, i + Len(str)) = str THEN i
    ELSE FindStrFrom(s, str, i + 1)

FindStr(s, str) == FindStrFrom(s, str, 0)

\* basic_string::find_first_not_of(set, pos)
FindFirstNotOf(s, set, pos) ==
    IF \E i \in pos..(Len(s) - 1) : IndexIn(set, s[i + 1]) = 0
    THEN CHOOSE i \in pos..(Len(s) - 1) :
             /\ IndexIn(set, s[i + 1]) = 0
             /\ \A j \in pos..(i - 1) : IndexIn(set, s[j + 1]) /= 0
    ELSE npos

\* basic_string::equal under ci_char_traits (buffer::istring)
ci_equal(s, t) ==
    /\ Len(s) = Len(t)
    /\ \A i \in 1..Len(s) : ci_eq(s[i], t[i])

-----------------------------------------------------------------------------
(* Integer widths *)

Pow2(k) == 2 ^ k
SIZE_MAX == Pow2(SizeBits) - 1
LONG_MAX == Pow2(SizeBits - 1) - 1
LONG_MIN == 0 - Pow2(SizeBits - 1)
\* HTTPParser::cl_unset: (size_t) -1
cl_unset == SIZE_MAX

\* conversion of a long to size_t
ToSize(x) == x % Pow2(SizeBits)

EINVAL == 22
ERANGE == 34

-----------------------------------------------------------------------------
(* buffer::stol *)

\* the value of a digit character, or base-overflowing / -1 when the scan stops
DigitValTable ==
    [c \in DigitSet \cup UpperSet \cup LowerSet |->
        IF isdigit(c) THEN IndexIn(DigitChars, c) - 1
        ELSE IF isupper(c) THEN IndexIn(UpperChars, c) + 9
        ELSE IndexIn(LowerChars, c) + 9]

DigitVal(c) == IF isdigit(c) \/ isalpha(c) THEN DigitValTable[c] ELSE -1

RECURSIVE stol_loop(_, _, _, _, _, _, _)
stol_loop(str, s, acc, any, base, cutoff, cutlim) ==
    IF s >= Len(str) THEN [acc |-> acc, any |-> any, s |-> s]
    ELSE LET c == DigitVal(str[s + 1]) IN
         IF c < 0 \/ c >= base THEN [acc |-> acc, any |-> any, s |-> s]
         ELSE IF acc > cutoff \/ (acc = cutoff /\ c > cutlim)
              THEN [acc |-> acc, any |-> -1, s |-> s + 1]
              ELSE stol_loop(str, s + 1, acc * base + c, 1, base, cutoff, cutlim)

\* returns the value, *idx and errno
stol(str, base) ==
    IF Len(str) = 0 THEN [val |-> 0, idx |-> 0, errno |-> EINVAL, idxset |-> FALSE]
    ELSE
    LET neg == str[1] = "-"
        signed == str[1] = "-" \/ str[1] = "+"
    IN IF signed /\ Len(str) = 1
       THEN [val |-> 0, idx |-> 0, errno |-> EINVAL, idxset |-> FALSE]
       ELSE
       LET lim == IF neg THEN Pow2(SizeBits - 1) ELSE LONG_MAX
           r == stol_loop(str, IF signed THEN 1 ELSE 0, 0, 0, base,
                          lim \div base, lim % base)
       IN IF r.any < 0
          THEN [val |-> IF neg THEN LONG_MIN ELSE LONG_MAX, idx |-> r.s,
                errno |-> ERANGE, idxset |-> TRUE]
          ELSE IF r.any = 0
          THEN [val |-> 0, idx |-> r.s, errno |-> EINVAL, idxset |-> TRUE]
          ELSE [val |-> IF neg THEN 0 - r.acc ELSE r.acc, idx |-> r.s,
                errno |-> 0, idxset |-> TRUE]

-----------------------------------------------------------------------------
(* HTTPParser: status values and the chunked-body search states *)

TERMINATE == "TERMINATE"
CONTINUE == "CONTINUE"
PROCEED == "PROCEED"

NO_SEARCH == "NO_SEARCH"
MARKER_CR_SEARCH == "MARKER_CR_SEARCH"
MARKER_LF_EXPECT == "MARKER_LF_EXPECT"
CHUNK_CR_EXPECT == "CHUNK_CR_EXPECT"
CHUNK_LF_EXPECT == "CHUNK_LF_EXPECT"
TRAILER_CR_SEARCH == "TRAILER_CR_SEARCH"
TRAILER_LF_EXPECT == "TRAILER_LF_EXPECT"
TRAILER_CR2_EXPECT == "TRAILER_CR2_EXPECT"
TRAILER_LF2_EXPECT == "TRAILER_LF2_EXPECT"

\* a cleared / default-constructed buffer::string
NullStr == [b |-> NULL, n |-> 0]

\* HTTPParser::reset
reset(p) ==
    [p EXCEPT !.port = 80,
              !.content_length = cl_unset,
              !.chunked = FALSE,
              !.skip_chunk = 0,
              !.marker_hoarder = cl_unset,
              !.crlf_search = NO_SEARCH,
              !.body_end = FALSE,
              !.no_transform = FALSE]

\* the member initialisers of HTTPParser and its constructor
HTTPParser_new ==
    reset([parse_line |-> "parse_request_line",
           input_buf |-> "F",
           output_buf |-> "B",
           scan_buf |-> NullStr,
           scan_buf_store |-> NullStr,
           found_line |-> NullStr,
           method |-> NullStr,
           request_uri |-> NullStr,
           host |-> NullStr,
           via |-> NullStr,
           x_forwarded_for |-> NullStr,
           no_transform |-> FALSE,
           port |-> 0,
           status_code |-> NullStr,
           reason_phrase |-> NullStr,
           keep_alive |-> FALSE,
           force_close |-> FALSE,
           request_version |-> 0,
           response_version |-> 0,
           http_version |-> NullStr,
           content_length |-> 0,
           chunked |-> FALSE,
           skip_chunk |-> 0,
           marker_hoarder |-> 0,
           body_end |-> FALSE,
           crlf_search |-> NO_SEARCH])

-----------------------------------------------------------------------------
(* HTTPParser::parse_body *)

\* the return value of parse_body: the parser afterwards, the Status, what is
\* left of recv_chunk, whether every assert() passed, and whether the shift
\* count of the marker accumulation stayed below the width of size_t
BodyRet(p, st, rc, ok, defined) ==
    [p |-> p, st |-> st, rc |-> rc, ok |-> ok, defined |-> defined]

\* label found_marker_end
found_marker_end(p) ==
    IF p.marker_hoarder = 0
    THEN [p EXCEPT !.crlf_search = CHUNK_CR_EXPECT, !.body_end = TRUE]
    ELSE [p EXCEPT !.crlf_search = NO_SEARCH,
                   !.skip_chunk = p.marker_hoarder,
                   !.marker_hoarder = cl_unset]

\* hoard_marker shifting three bits per digit instead of four
hoard_marker_shift3(hoarder, marker_part, digits) ==
    IF hoarder = cl_unset
    THEN [fit |-> TRUE, hoarder |-> ToSize(marker_part), defined |-> TRUE]
    ELSE LET bits == digits * 3 IN
         IF bits >= SizeBits \/ hoarder > SIZE_MAX \div Pow2(bits)
         THEN [fit |-> FALSE, hoarder |-> hoarder, defined |-> bits < SizeBits]
         ELSE [fit |-> TRUE,
               hoarder |-> ToSize(hoarder * Pow2(bits) + ToSize(marker_part)),
               defined |-> TRUE]

\* the accumulation of a marker part into marker_hoarder; FALSE in .fit when
\* the marker is reported too big
hoard_marker(hoarder, marker_part, digits) ==
    IF hoarder = cl_unset
    THEN [fit |-> TRUE, hoarder |-> ToSize(marker_part), defined |-> TRUE]
    ELSE LET bits == digits * 4
             shift == IF bits < SizeBits THEN bits ELSE bits % SizeBits
         IN IF hoarder > SIZE_MAX \div Pow2(shift)
            THEN [fit |-> FALSE, hoarder |-> hoarder, defined |-> bits < SizeBits]
            ELSE [fit |-> TRUE,
                  hoarder |-> ToSize(hoarder * Pow2(shift) + ToSize(marker_part)),
                  defined |-> bits < SizeBits]

RECURSIVE parse_body_loop(_, _, _, _)
parse_body_loop(p, rc, ok, defined) ==
    IF Len(rc) = 0 THEN BodyRet(p, CONTINUE, rc, ok, defined)
    ELSE CASE p.crlf_search = MARKER_CR_SEARCH ->
            LET cr == FindChar(rc, CR, 0) IN
            IF cr = npos THEN BodyRet(p, CONTINUE, rc, ok, defined)
            ELSE IF cr = Len(rc) - 1
            THEN BodyRet([p EXCEPT !.crlf_search = MARKER_LF_EXPECT],
                         CONTINUE, rc, ok, defined)
            ELSE IF rc[cr + 2] = LF
            THEN parse_body_loop(found_marker_end(p), Drop(rc, cr + 2),
                                 ok /\ p.marker_hoarder /= cl_unset, defined)
            ELSE parse_body_loop(p, Drop(rc, cr + 1), ok, defined)
         [] p.crlf_search = MARKER_LF_EXPECT ->
            IF rc[1] = LF
            THEN parse_body_loop(found_marker_end(p), Drop(rc, 1),
                                 ok /\ p.marker_hoarder /= cl_unset, defined)
            ELSE parse_body_loop([p EXCEPT !.crlf_search = MARKER_CR_SEARCH],
                                 Drop(rc, 1), ok, defined)
         [] p.crlf_search = CHUNK_CR_EXPECT ->
            IF rc[1] /= CR
            THEN IF p.body_end
                 THEN parse_body_loop([p EXCEPT !.crlf_search = TRAILER_CR_SEARCH],
                                      Drop(rc, 1), ok, defined)
                 ELSE BodyRet(p, TERMINATE, rc, ok, defined)
            ELSE parse_body_loop([p EXCEPT !.crlf_search = CHUNK_LF_EXPECT],
                                 Drop(rc, 1), ok, defined)
         [] p.crlf_search = CHUNK_LF_EXPECT ->
            IF rc[1] /= LF THEN BodyRet(p, TERMINATE, rc, ok, defined)
            ELSE IF p.body_end
            THEN BodyRet(p, PROCEED, rc, ok /\ Len(rc) = 1, defined)
            ELSE parse_body_loop([p EXCEPT !.crlf_search = NO_SEARCH],
                                 Drop(rc, 1), ok, defined)
         [] p.crlf_search = TRAILER_CR_SEARCH ->
            LET cr == FindChar(rc, CR, 0) IN
            IF cr = npos THEN BodyRet(p, CONTINUE, rc, ok, defined)
            ELSE parse_body_loop([p EXCEPT !.crlf_search = TRAILER_LF_EXPECT],
                                 Drop(rc, cr + 1), ok, defined)
         [] p.crlf_search = TRAILER_LF_EXPECT ->
            IF rc[1] /= LF
            THEN parse_body_loop([p EXCEPT !.crlf_search = TRAILER_CR_SEARCH],
                                 Drop(rc, 1), ok, defined)
            ELSE parse_body_loop([p EXCEPT !.crlf_search = TRAILER_CR2_EXPECT],
                                 Drop(rc, 1), ok, defined)
         [] p.crlf_search = TRAILER_CR2_EXPECT ->
            IF rc[1] /= CR
            THEN parse_body_loop([p EXCEPT !.crlf_search = TRAILER_CR_SEARCH],
                                 Drop(rc, 1), ok, defined)
            ELSE parse_body_loop([p EXCEPT !.crlf_search = TRAILER_LF2_EXPECT],
                                 Drop(rc, 1), ok, defined)
         [] p.crlf_search = TRAILER_LF2_EXPECT ->
            IF rc[1] /= LF
            THEN parse_body_loop([p EXCEPT !.crlf_search = TRAILER_CR_SEARCH],
                                 Drop(rc, 1), ok, defined)
            ELSE BodyRet(p, PROCEED, rc, ok, defined)
         [] OTHER ->
            \* NO_SEARCH
            IF p.skip_chunk >= Len(rc)
            THEN LET sk == p.skip_chunk - Len(rc) IN
                 IF sk = 0
                 THEN IF ~p.chunked
                      THEN BodyRet([p EXCEPT !.skip_chunk = 0], PROCEED, rc, ok, defined)
                      ELSE BodyRet([p EXCEPT !.skip_chunk = 0,
                                             !.crlf_search = CHUNK_CR_EXPECT],
                                   CONTINUE, rc, ok, defined)
                 ELSE BodyRet([p EXCEPT !.skip_chunk = sk], CONTINUE, rc, ok, defined)
            ELSE IF p.skip_chunk > 0
            THEN IF ~p.chunked
                 THEN BodyRet(p, PROCEED, rc, ok, defined)
                 ELSE parse_body_loop([p EXCEPT !.skip_chunk = 0,
                                                !.crlf_search = CHUNK_CR_EXPECT],
                                      Drop(rc, p.skip_chunk),
                                      ok /\ p.marker_hoarder = cl_unset, defined)
            ELSE IF p.marker_hoarder /= cl_unset /\ (rc[1] = CR \/ rc[1] = ";")
            THEN parse_body_loop([p EXCEPT !.crlf_search = MARKER_CR_SEARCH],
                                 rc, ok, defined)
            ELSE
            LET m == stol(rc, 16) IN
            IF m.errno /= 0 THEN BodyRet(p, TERMINATE, rc, ok, defined)
            ELSE IF Len(rc) > m.idx /\ rc[m.idx + 1] /= ";" /\ rc[m.idx + 1] /= CR
            THEN BodyRet(p, TERMINATE, rc, ok, defined)
            ELSE
            LET h == hoard_marker(p.marker_hoarder, m.val, m.idx) IN
            IF ~h.fit THEN BodyRet(p, TERMINATE, rc, ok, defined /\ h.defined)
            ELSE IF m.idx = Len(rc)
            THEN BodyRet([p EXCEPT !.marker_hoarder = h.hoarder],
                         CONTINUE, rc, ok, defined /\ h.defined)
            ELSE parse_body_loop([p EXCEPT !.marker_hoarder = h.hoarder,
                                           !.crlf_search = MARKER_CR_SEARCH],
                                 Drop(rc, m.idx), ok, defined /\ h.defined)

parse_body(p, recv_chunk) ==
    parse_body_loop(p, recv_chunk, Len(recv_chunk) > 0, TRUE)


-----------------------------------------------------------------------------
(* IOBuffer (src/connection.h) over the two halves of buffer_holder *)

\* the content of memory that was never written
UNINIT == "?"

Mem0 == [i \in 1..(2 * BufSize) |-> UNINIT]

\* IOBuffer::IOBuffer(buffer_): an empty window at the start of its region
IOBuffer_new(base) == [b |-> base, n |-> 0, base |-> base, cap |-> BufSize]

\* free_size that forgets where the window begins
free_size_of_length(buf) == buf.cap - buf.n

\* IOBuffer::free_size
free_size(buf) == (buf.base + buf.cap) - (buf.b + buf.n)

\* IOBuffer::reset
IOBuffer_reset(buf) == [buf EXCEPT !.b = buf.base, !.n = 0]

\* basic_string::end
End(v) == v.b + v.n

\* basic_string::assign(begin, end)
Str(b, e) == [b |-> b, n |-> e - b]

\* the bytes a buffer::string refers to
Bytes(m, v) == SubSeq(m, v.b + 1, v.b + v.n)

\* memory m with the bytes bs stored from address a on
Store(m, a, bs) ==
    IF Len(bs) = 0 THEN m
    ELSE SubSeq(m, 1, a) \o bs \o SubSeq(m, a + Len(bs) + 1, Len(m))

\* IOBuffer::recv of the bytes data (a successful ::recv): the buffer, the
\* memory and the recv_chunk afterwards
IOBuffer_recv(buf, m, data) ==
    [buf |-> [buf EXCEPT !.n = buf.n + Len(data)],
     mem |-> Store(m, buf.b + buf.n, data),
     rc |-> [b |-> buf.b + buf.n, n |-> Len(data)]]

\* the NUL byte
NUL == "\\0"

-----------------------------------------------------------------------------
(* HTTPParser: the head parser (src/http.cc).  A context c holds the parser  *)
(* p, the memory mem and the two IOBuffers F (frontend) and B (backend).     *)

Ctx(p, m, F, B) == [p |-> p, mem |-> m, F |-> F, B |-> B]

\* *input_buf / *output_buf
InputBuf(c) == IF c.p.input_buf = "F" THEN c.F ELSE c.B
OutputBuf(c) == IF c.p.output_buf = "F" THEN c.F ELSE c.B
WithInputBuf(c, buf) ==
    IF c.p.input_buf = "F" THEN [c EXCEPT !.F = buf] ELSE [c EXCEPT !.B = buf]
WithOutputBuf(c, buf) ==
    IF c.p.output_buf = "F" THEN [c EXCEPT !.F = buf] ELSE [c EXCEPT !.B = buf]

\* copy_line without the test of the free size
copy_line_unchecked(c, line) ==
    Let(OutputBuf(c), LAMBDA out :
        [err |-> FALSE,
         c |-> WithOutputBuf([c EXCEPT !.mem = Store(c.mem, out.b, line)],
                             [out EXCEPT !.b = out.b + Len(line)])])

\* HTTPParser::copy_line: .err is its return value
copy_line(c, line) ==
    Let(OutputBuf(c), LAMBDA out :
        IF Len(line) > free_size(out)
        THEN [err |-> TRUE, c |-> c]
        ELSE [err |-> FALSE,
              c |-> WithOutputBuf([c EXCEPT !.mem = Store(c.mem, out.b, line)],
                                  [out EXCEPT !.b = out.b + Len(line)])])

\* copy_line over a list of lines, stopping at the first failure (the || chains)
RECURSIVE copy_lines(_, _)
copy_lines(c, lines) ==
    IF Len(lines) = 0 THEN [err |-> FALSE, c |-> c]
    ELSE Let(copy_line(c, Head(lines)), LAMBDA r :
             IF r.err THEN r ELSE copy_lines(r.c, Tail(lines)))

\* HTTPParser::copy_found_line
copy_found_line(c) == copy_line(c, Bytes(c.mem, c.p.found_line))

\* header names and values (src/http.cc:7-14, 92-107)
CHUNKED == <<"c", "h", "u", "n", "k", "e", "d">>
KEEP_ALIVE == <<"k", "e", "e", "p", "-", "a", "l", "i", "v", "e">>
CLOSE == <<"c", "l", "o", "s", "e">>
NO_TRANSFORM == <<"n", "o", "-", "t", "r", "a", "n", "s", "f", "o", "r",
    "m">>
N_CACHE_CONTROL == <<"c", "a", "c", "h", "e", "-", "c", "o", "n", "t", "r",
    "o", "l">>
N_CONNECTION == <<"c", "o", "n", "n", "e", "c", "t", "i", "o", "n">>
N_CONTENT_LENGTH == <<"c", "o", "n", "t", "e", "n", "t", "-", "l", "e",
    "n", "g", "t", "h">>
N_HOST == <<"h", "o", "s", "t">>
N_TRANSFER_ENCODING == <<"t", "r", "a", "n", "s", "f", "e", "r", "-", "e",
    "n", "c", "o", "d", "i", "n", "g">>
N_VIA == <<"v", "i", "a">>
N_X_FORWARDED_FOR == <<"x", "-", "f", "o", "r", "w", "a", "r", "d", "e",
    "d", "-", "f", "o", "r">>

RequestHeader_names == <<N_CACHE_CONTROL, N_CONNECTION, N_CONTENT_LENGTH, N_HOST,
                         N_TRANSFER_ENCODING, N_VIA, N_X_FORWARDED_FOR>>
ResponseHeader_names == <<N_CONNECTION, N_CONTENT_LENGTH, N_TRANSFER_ENCODING>>

\* RequestHeader::find / ResponseHeader::find: the name matched, or "unknown"
Header_find(names, field) ==
    LET Cand == {i \in 1..Len(names) : ci_equal(names[i], field)}
    IN IF Cand = {} THEN <<>> ELSE names[CHOOSE i \in Cand : \A j \in Cand : i <= j]

\* HTTPParser::next_line: .found is its return value
RECURSIVE next_line(_)
next_line(c) ==
    IF c.p.scan_buf.n = 0 THEN [found |-> FALSE, c |-> c]
    ELSE Let(FindStr(Bytes(c.mem, c.p.scan_buf), CRLF), LAMBDA crlf :
        LET p == c.p
            crlf_end == crlf + Len(CRLF)
            header == p.found_line.n /= 0
                      /\ End(p.found_line) /= p.scan_buf.b + crlf
        IN
        IF crlf = npos THEN [found |-> FALSE, c |-> c]
        ELSE IF header /\ crlf_end = p.scan_buf.n
        THEN [found |-> FALSE, c |-> [c EXCEPT !.p.scan_buf_store = p.scan_buf]]
        ELSE IF header /\ IndexIn(WSP, c.mem[p.scan_buf.b + crlf_end + 1]) /= 0
        THEN next_line([c EXCEPT !.p.scan_buf =
                            Str(p.scan_buf.b + crlf_end + 1, End(p.scan_buf))])
        ELSE [found |-> TRUE,
              c |-> [c EXCEPT
                       !.p.found_line =
                           Str(IF p.found_line.n = 0 THEN InputBuf(c).b
                               ELSE End(p.found_line),
                               p.scan_buf.b + crlf_end),
                       !.p.scan_buf =
                           Str(p.scan_buf.b + crlf_end, End(p.scan_buf))]])

\* HTTPParser::parse_http_version: the version number of the bytes hv
parse_http_version(hv) ==
    Let(FindChar(hv, ".", 0), LAMBDA sep :
        IF sep /= npos
        THEN stol(SubSeq(hv, 1, sep), 10).val * 1000
                 + stol(Drop(hv, sep + 1), 10).val
        ELSE stol(hv, 10).val * 1000)

\* the result of a parse_line function
Ret(st, c) == [st |-> st, c |-> c]

\* copy_found_line() and the status it leads to
CopyFound(c) ==
    Let(copy_found_line(c), LAMBDA r :
        Ret(IF r.err THEN TERMINATE ELSE CONTINUE, r.c))

\* HTTPParser::parse_request_line
parse_request_line(c) ==
    Let(Bytes(c.mem, c.p.found_line), LAMBDA line :
    Let(FindChar(line, SP, 0), LAMBDA sp1 :
    Let(FindChar(line, SP, sp1 + 1), LAMBDA sp2 :
    Let(FindChar(line, "/", sp2 + 1), LAMBDA sep :
        LET fl == c.p.found_line
            n == Len(line)
            c1 == [c EXCEPT !.p.method = Str(fl.b, fl.b + sp1)]
            c2 == [c1 EXCEPT !.p.request_uri = Str(fl.b + sp1 + 1, fl.b + sp2)]
            hv == Str(fl.b + sep + 1, End(fl) - Len(CRLF))
        IN
        IF sp1 = npos THEN Ret(TERMINATE, c)
        ELSE IF sp1 + 1 >= n - Len(CRLF) THEN Ret(TERMINATE, c1)
        ELSE IF sp2 = npos THEN Ret(TERMINATE, c1)
        ELSE IF sp2 + 1 >= n - Len(CRLF) THEN Ret(TERMINATE, c2)
        ELSE IF sep = npos THEN Ret(TERMINATE, c2)
        ELSE IF sep + 1 >= n - Len(CRLF) THEN Ret(TERMINATE, c2)
        ELSE Let(parse_http_version(Bytes(c.mem, hv)), LAMBDA version :
                 CopyFound([c2 EXCEPT
                     !.p.http_version = hv,
                     !.p.request_version = version,
                     !.p.force_close = IF version <= 1000 THEN TRUE ELSE @,
                     !.p.parse_line = "parse_request_head"])) ))))

\* HTTPParser::get_header_value: .err is its return value, .value the string
get_header_value(c, colon) ==
    Let(Bytes(c.mem, c.p.found_line), LAMBDA line :
    Let(FindFirstNotOf(line, LWSP, colon + 1), LAMBDA val :
        IF colon + 1 >= Len(line) - Len(CRLF) THEN [err |-> TRUE, value |-> NullStr]
        ELSE IF val = npos THEN [err |-> TRUE, value |-> NullStr]
        ELSE [err |-> FALSE,
              value |-> Str(c.p.found_line.b + val,
                            End(c.p.found_line) - Len(CRLF))] ))

\* the addresses getsockname / getpeername report for the client socket
LocalIP == <<"1", "0", ".", "0", ".", "0", ".", "1">>
PeerIP == <<"1", "0", ".", "0", ".", "0", ".", "2">>

\* HTTPParser::local_address, HTTPParser::peer_address
local_address == <<SP>> \o LocalIP \o CRLF
peer_address == PeerIP \o CRLF

\* the static strings of copy_modified_headers
via_h == N_VIA \o <<":", SP>>
xforw_h == N_X_FORWARDED_FOR \o <<":", SP>>
comma == <<",", SP>>

\* HTTPParser::copy_modified_headers: .err is its return value
copy_modified_headers(c) ==
    Let(Bytes(c.mem, c.p.http_version), LAMBDA hv :
    Let(IF c.p.via.n = 0
        THEN IF ~c.p.no_transform
             THEN copy_lines(c, <<via_h, hv, local_address>>)
             ELSE [err |-> FALSE, c |-> c]
        ELSE Let(copy_line(c, Bytes(c.mem, c.p.via)), LAMBDA rv :
                 IF rv.err THEN rv
                 ELSE IF ~c.p.no_transform
                 THEN copy_lines(rv.c, <<comma, hv, local_address>>)
                 ELSE rv),
        LAMBDA r1 :
        IF r1.err THEN r1
        ELSE IF c.p.x_forwarded_for.n = 0
        THEN IF ~c.p.no_transform
             THEN copy_lines(r1.c, <<xforw_h, peer_address>>)
             ELSE r1
        ELSE Let(copy_line(r1.c, Bytes(r1.c.mem, c.p.via)), LAMBDA rx :
                 IF rx.err THEN rx
                 ELSE IF ~c.p.no_transform
                 THEN copy_lines(rx.c, <<comma, peer_address>>)
                 ELSE rx) ))

\* the end of the head in parse_request_head / parse_response_head: the input
\* window moves past the head, the output window covers what was emitted
FinishHead(c) ==
    LET inb == InputBuf(c)
        c1 == WithInputBuf(c, [inb EXCEPT !.b = End(c.p.found_line),
                                          !.n = End(inb) - End(c.p.found_line)])
        out == OutputBuf(c1)
    IN WithOutputBuf(c1, [out EXCEPT !.b = out.base, !.n = End(out) - out.base])

\* case RequestHeader::HOST of parse_request_head, after the line was copied
request_host(c, colon) ==
    Let(get_header_value(c, colon), LAMBDA v :
    Let(Bytes(c.mem, v.value), LAMBDA hb :
    Let(FindChar(hb, ":", 0), LAMBDA colon2 :
        LET host == IF colon2 /= npos THEN [v.value EXCEPT !.n = colon2]
                    ELSE v.value
        IN IF v.err THEN Ret(TERMINATE, c)
           ELSE Ret(CONTINUE,
                    [c EXCEPT
                       !.p.port = IF colon2 /= npos /\ colon2 + 1 < Len(hb)
                                  THEN ToSize(stol(Drop(hb, colon2 + 1), 10).val)
                                  ELSE @,
                       !.p.host = host,
                       !.mem = Store(c.mem, End(host), <<NUL>>)]) )))

\* the found CRLFCRLF branch of parse_request_head
request_head_end(c) ==
    Let(copy_modified_headers(
            IF ~c.p.chunked
            THEN [c EXCEPT !.p.skip_chunk =
                     IF c.p.content_length = cl_unset THEN 0
                     ELSE c.p.content_length]
            ELSE c),
        LAMBDA m :
        IF m.err THEN Ret(TERMINATE, m.c)
        ELSE Let(copy_found_line(m.c), LAMBDA f :
                 IF f.err THEN Ret(TERMINATE, f.c)
                 ELSE Ret(PROCEED, FinishHead(f.c))))

\* the cases of parse_request_head that copy the line and read its value:
\* c is the context after copy_found_line succeeded
request_header_value(c, header, colon) ==
    Let(get_header_value(c, colon), LAMBDA v :
    Let(Bytes(c.mem, v.value), LAMBDA value :
        IF v.err THEN Ret(TERMINATE, c)
        ELSE IF header = N_CONTENT_LENGTH
        THEN Ret(CONTINUE,
                 [c EXCEPT !.p.content_length = ToSize(stol(value, 10).val)])
        ELSE IF header = N_TRANSFER_ENCODING
        THEN Ret(CONTINUE, [c EXCEPT !.p.chunked =
                                IF ci_equal(value, CHUNKED) THEN TRUE ELSE @])
        ELSE IF header = N_CACHE_CONTROL
        THEN Ret(CONTINUE, [c EXCEPT !.p.no_transform =
                                IF ci_equal(value, NO_TRANSFORM) THEN TRUE ELSE @])
        ELSE \* N_CONNECTION
             Ret(CONTINUE, [c EXCEPT !.p.force_close =
                                IF ci_equal(value, CLOSE) THEN TRUE
                                ELSE IF ci_equal(value, KEEP_ALIVE) THEN FALSE
                                ELSE @]) ))

\* HTTPParser::parse_request_head
parse_request_head(c) ==
    IF c.p.found_line.n = Len(CRLF) THEN request_head_end(c)
    ELSE
    Let(Bytes(c.mem, c.p.found_line), LAMBDA line :
    Let(FindChar(line, ":", 0), LAMBDA colon :
        IF colon = npos THEN Ret(TERMINATE, c)
        ELSE
        Let(Header_find(RequestHeader_names, SubSeq(line, 1, colon)), LAMBDA header :
            IF header = N_VIA
            THEN Ret(CONTINUE, [c EXCEPT !.p.via = c.p.found_line])
            ELSE IF header = N_X_FORWARDED_FOR
            THEN Ret(CONTINUE, [c EXCEPT !.p.x_forwarded_for = c.p.found_line])
            ELSE
            Let(copy_found_line(c), LAMBDA cp :
                IF cp.err THEN Ret(TERMINATE, cp.c)
                ELSE IF header = <<>> THEN Ret(CONTINUE, cp.c)
                ELSE IF header = N_HOST THEN request_host(cp.c, colon)
                ELSE request_header_value(cp.c, header, colon))) ))

\* HTTPParser::parse_response_line
parse_response_line(c) ==
    Let(Bytes(c.mem, c.p.found_line), LAMBDA line :
    Let(FindChar(line, "/", 0), LAMBDA sep :
    Let(FindChar(line, SP, sep + 1), LAMBDA sp1 :
    Let(FindChar(line, SP, sp1 + 1), LAMBDA sp2 :
        LET fl == c.p.found_line
            n == Len(line)
            hv == Str(fl.b + sep + 1, fl.b + sp1)
        IN
        IF sep = npos THEN Ret(TERMINATE, c)
        ELSE IF sep + 1 >= n - Len(CRLF) THEN Ret(TERMINATE, c)
        ELSE IF sp1 = npos THEN Ret(TERMINATE, c)
        ELSE
        Let(parse_http_version(Bytes(c.mem, hv)), LAMBDA version :
            LET c1 == [c EXCEPT
                         !.p.http_version = hv,
                         !.p.response_version = version,
                         !.p.keep_alive =
                             IF version > 1000 /\ ~c.p.force_close THEN TRUE ELSE @]
                c2 == [c1 EXCEPT
                         !.p.status_code = Str(fl.b + sp1 + 1, fl.b + sp2)]
            IN
            IF sp1 + 1 >= n - Len(CRLF) THEN Ret(TERMINATE, c1)
            ELSE IF sp2 = npos THEN Ret(TERMINATE, c1)
            ELSE IF sp2 + 1 >= n - Len(CRLF) THEN Ret(TERMINATE, c2)
            ELSE Ret(CONTINUE,
                     [c2 EXCEPT
                        !.p.reason_phrase =
                            Str(fl.b + sp2 + 1, End(fl) - Len(CRLF)),
                        !.p.parse_line = "parse_response_head"])) ))))

\* the cases of parse_response_head that read the header's value
response_header_value(c, header, colon) ==
    Let(get_header_value(c, colon), LAMBDA v :
    Let(Bytes(c.mem, v.value), LAMBDA value :
        IF v.err THEN Ret(TERMINATE, c)
        ELSE IF header = N_CONTENT_LENGTH
        THEN Ret(CONTINUE,
                 [c EXCEPT !.p.content_length = ToSize(stol(value, 10).val)])
        ELSE IF header = N_TRANSFER_ENCODING
        THEN Ret(CONTINUE, [c EXCEPT !.p.chunked =
                                IF ci_equal(value, CHUNKED) THEN TRUE ELSE @])
        ELSE \* N_CONNECTION
             Ret(CONTINUE, [c EXCEPT !.p.keep_alive =
                                IF ~c.p.force_close /\ ci_equal(value, KEEP_ALIVE)
                                THEN TRUE
                                ELSE IF ci_equal(value, CLOSE) THEN FALSE
                                ELSE @]) ))

\* HTTPParser::parse_response_head
parse_response_head(c) ==
    IF c.p.found_line.n = Len(CRLF)
    THEN Ret(PROCEED,
             IF ~c.p.chunked
             THEN [c EXCEPT !.p.skip_chunk =
                      IF c.p.content_length = cl_unset THEN 0
                      ELSE c.p.content_length]
             ELSE c)
    ELSE
    Let(Bytes(c.mem, c.p.found_line), LAMBDA line :
    Let(FindChar(line, ":", 0), LAMBDA colon :
        IF colon = npos THEN Ret(TERMINATE, c)
        ELSE
        Let(Header_find(ResponseHeader_names, SubSeq(line, 1, colon)), LAMBDA header :
            IF header = <<>> THEN Ret(CONTINUE, c)
            ELSE response_header_value(c, header, colon)) ))

\* (this->*parse_line)()
parse_line(c) ==
    CASE c.p.parse_line = "parse_request_line" -> parse_request_line(c)
      [] c.p.parse_line = "parse_request_head" -> parse_request_head(c)
      [] c.p.parse_line = "parse_response_line" -> parse_response_line(c)
      [] c.p.parse_line = "parse_response_head" -> parse_response_head(c)

\* the result of parse_head: status, context and the recv_chunk left over
HeadRet(st, c, rc) == [st |-> st, c |-> c, rc |-> rc]

\* the while loop of parse_head
RECURSIVE parse_head_loop(_, _)
parse_head_loop(c, recv_chunk) ==
    Let(next_line(c), LAMBDA nl :
        IF ~nl.found THEN HeadRet(CONTINUE, nl.c, recv_chunk)
        ELSE Let(parse_line(nl.c), LAMBDA res :
                 IF res.st /= CONTINUE
                 THEN HeadRet(res.st, res.c,
                              Str(End(res.c.p.found_line), End(recv_chunk)))
                 ELSE parse_head_loop(res.c, recv_chunk)))

\* parse_head without the one-byte step back before the received chunk
parse_head_no_step_back(c, recv_chunk) ==
    Let(IF c.p.scan_buf_store.n /= 0
        THEN Str(c.p.scan_buf_store.b, End(recv_chunk))
        ELSE recv_chunk,
        LAMBDA sb :
        LET c1 == [c EXCEPT !.p.scan_buf = sb,
                            !.p.scan_buf_store =
                                IF c.p.scan_buf_store.n /= 0 THEN NullStr ELSE @]
        IN IF sb.n < Len(CRLF) THEN HeadRet(CONTINUE, c1, recv_chunk)
           ELSE parse_head_loop(c1, recv_chunk))

\* HTTPParser::parse_head
parse_head(c, recv_chunk) ==
    Let(IF c.p.scan_buf_store.n /= 0
        THEN Str(c.p.scan_buf_store.b, End(recv_chunk))
        ELSE IF recv_chunk.b > InputBuf(c).b + (Len(CRLF) - 1)
        THEN Str(recv_chunk.b + 1 - Len(CRLF), End(recv_chunk))
        ELSE Str(InputBuf(c).b, End(recv_chunk)),
        LAMBDA sb :
        LET c1 == [c EXCEPT !.p.scan_buf = sb,
                            !.p.scan_buf_store =
                                IF c.p.scan_buf_store.n /= 0 THEN NullStr ELSE @]
        IN IF sb.n < Len(CRLF) THEN HeadRet(CONTINUE, c1, recv_chunk)
           ELSE parse_head_loop(c1, recv_chunk))

-----------------------------------------------------------------------------
(* OnEventLoop: an endpoint's watcher (src/connection.h) *)

EV_READ == "EV_READ"
EV_WRITE == "EV_WRITE"

\* an endpoint without a socket: conn_watcher.fd = 0, the watcher not started
NoEndpoint == [fd |-> 0, events |-> {}, active |-> FALSE, cb |-> "conn_callback"]

\* ev_io_init + ev_io_start in start_conn_watcher<CALLBACK>(events)
start_conn_watcher(ep, cb, events) ==
    [ep EXCEPT !.events = events, !.active = TRUE, !.cb = cb]

\* OnEventLoop::start_events
start_events(ep, events) ==
    IF ep.events \cap events /= {} THEN ep
    ELSE [ep EXCEPT !.events = @ \cup events, !.active = TRUE]

\* OnEventLoop::stop_events ("events & events == 0" is "events & 0": no return)
stop_events(ep, events) ==
    [ep EXCEPT !.events = @ \ events, !.active = (ep.events \ events) /= {}]

\* start_only_events that keeps the events the watcher already waits for
start_only_events_adds(ep, events) ==
    [ep EXCEPT !.events = @ \cup events, !.active = TRUE]

\* OnEventLoop::start_only_events
start_only_events(ep, events) == [ep EXCEPT !.events = events, !.active = TRUE]

\* OnEventLoop::stop_all_events
stop_all_events(ep) == [ep EXCEPT !.events = {}, !.active = FALSE]

\* the fd table after socket() / accept() handed out a descriptor
NewFd(t) == t.nextfd
OpenFd(t) == [t EXCEPT !.nextfd = @ + 1]

\* close(fd)
CloseFd(t, fd) == [t EXCEPT !.closes[fd] = @ + 1]

\* OnEventLoop::terminate: the endpoint and the fd table afterwards
terminate(ep, t) ==
    IF ep.fd /= 0
    THEN [ep |-> [ep EXCEPT !.active = FALSE, !.fd = 0], fds |-> CloseFd(t, ep.fd)]
    ELSE [ep |-> ep, fds |-> t]

-----------------------------------------------------------------------------
(* Pool<Proxy> and OnPool<Proxy> (src/pool.h) *)

Nodes == 1..PoolSize
nullptr == 0

\* Pool::add_pool: the free list threads the nodes in order
Pool_new ==
    [free |-> 1,
     next |-> [n \in Nodes |-> IF n < PoolSize THEN n + 1 ELSE nullptr]]

\* Pool::get: .node is the block handed out (NoGrow::on_get throws on nullptr)
Pool_get(pl) == [node |-> pl.free, pool |-> [pl EXCEPT !.free = pl.next[pl.free]]]

\* Pool::add_pool(size) in the constructor of a NoGrow pool: the free list
\* threads the first size nodes in order
add_pool(size) ==
    [free |-> 1,
     next |-> [n \in Nodes |-> IF n < size THEN n + 1 ELSE nullptr]]

\* a get that reports exhaustion one block early
Pool_get_or_throw_early(pl) ==
    IF pl.free = nullptr \/ pl.next[pl.free] = nullptr
    THEN [thrown |-> TRUE, node |-> nullptr, pool |-> pl]
    ELSE [thrown |-> FALSE, node |-> pl.free, pool |-> Pool_get(pl).pool]

\* Pool::get with NoGrow::on_get: std::bad_alloc is thrown before anything
\* is changed
Pool_get_or_throw(pl) ==
    IF pl.free = nullptr
    THEN [thrown |-> TRUE, node |-> nullptr, pool |-> pl]
    ELSE [thrown |-> FALSE, node |-> pl.free, pool |-> Pool_get(pl).pool]

\* a release that forgets the rest of the free list
Pool_release_unlinked(pl, node) == [pl EXCEPT !.next[node] = nullptr, !.free = node]

\* Pool::release
Pool_release(pl, node) == [pl EXCEPT !.next[node] = pl.free, !.free = node]

\* Pool::free_chunks: the nodes counted walking from n; the walk never ends
\* on a cyclic list, which is reported as -1
RECURSIVE free_chunks_from(_, _, _)
free_chunks_from(pl, n, chunks) ==
    IF n = nullptr THEN chunks
    ELSE IF chunks > PoolSize THEN -1
    ELSE free_chunks_from(pl, pl.next[n], chunks + 1)

free_chunks(pl) == free_chunks_from(pl, pl.free, 0)

\* ~Proxy run on the session of a slot: backend, then frontend are destroyed
\* (~OnEventLoop calls terminate()); .slot and .fds are the results
Proxy_destroy(slot, t) ==
    Let(terminate(slot.be, t), LAMBDA b :
    Let(terminate(slot.fe, b.fds), LAMBDA f :
        [slot |-> [slot EXCEPT !.be = b.ep, !.fe = f.ep], fds |-> f.fds]))

\* before any connection: a full pool, no session, no descriptor closed
NoSlot == [live |-> FALSE, fe |-> NoEndpoint, be |-> NoEndpoint,
           releases |-> 0, pushes |-> 0, ffd |-> 0, bfd |-> 0,
           count1 |-> 0, quiet |-> FALSE]
Fds0 == [nextfd |-> 1, closes |-> [fd \in 1..MaxFds |-> 0]]

IdlePool ==
    /\ pool = Pool_new
    /\ slots = [n \in Nodes |-> NoSlot]
    /\ fds = Fds0

\* no session under study: the members of a Proxy that was not constructed
NoSession ==
    [alive |-> FALSE, node |-> nullptr, progress |-> 0,
     fe |-> NoEndpoint, be |-> NoEndpoint,
     host |-> <<>>, host_ip |-> 0, port |-> 0]

\* what is recorded of the last finished request head (out: the rewritten
\* head in the buffer of the backend when parse_head returned PROCEED), of the
\* last choice of a backend under keep-alive, and of the last failed connect
NoHead == [k |-> 0, req |-> <<>>, fields |-> <<>>, out |-> <<>>]
NoDecision ==
    [kind |-> "none", same_name |-> FALSE, same_port |-> FALSE,
     same_ip |-> FALSE, resolved |-> FALSE, opened |-> 0, old_fd |-> 0,
     old_closes |-> 0]
NoFail ==
    [how |-> "none", at |-> 0, seen |-> FALSE, released |-> FALSE,
     text |-> <<>>, be_active |-> FALSE, fe_events |-> {}]

\* the network before any connection: nothing in flight, nothing counted;
\* full: the frontend stopped reading on BUFFER_FULL and has not been re-armed,
\* shut: the Progress at which a shutdown of the origin was handled in the
\* middle of a response (-1: none), srest: what the origin has still to send,
\* extra: who wrote bytes that belong to no message, rhead: the flags of the
\* parser when the head of the last response was finished and the Progress
\* that was assigned then (k: for which request, 0: none yet), cout, sout:
\* what the client and the origin were sent since the last request began,
\* brecv: what the backend received since then, early: the backend received
\* data while Progress was below REQUEST_FINISHED
Net0 ==
    [creq |-> <<>>, req |-> <<>>, ceof |-> FALSE, awaiting |-> FALSE, nreq |-> 0,
     sin |-> <<>>, seof |-> FALSE, sresp |-> FALSE, conn |-> "none",
     srest |-> <<>>, full |-> FALSE, shut |-> -1, extra |-> {},
     rhead |-> [k |-> 0, force_close |-> FALSE, keep_alive |-> FALSE,
                chunked |-> FALSE, content_length |-> cl_unset,
                response_version |-> 0, progress |-> 0],
     cout |-> <<>>, sout |-> <<>>, brecv |-> <<>>, early |-> FALSE,
     allocs |-> 0, opened |-> 0, releases |-> 0, restarts |-> 0,
     targets |-> {}, head |-> NoHead, dec |-> NoDecision, fail |-> NoFail,
     e502 |-> "none"]

IdleProxy ==
    /\ sess = NoSession
    /\ net = Net0

\* the library classes when they are not exercised by themselves: no block
\* held, no cache built, no conversion made
NoAlloc == [cap |-> 0, held |-> <<>>,
            op |-> "none", node |-> nullptr, before |-> Pool_new,
            prevop |-> "none", prevnode |-> nullptr, prevbefore |-> Pool_new]
NoCache == [built |-> FALSE]
NoConv == [called |-> FALSE]

IdleLib ==
    /\ alloc = NoAlloc
    /\ cache = NoCache
    /\ conv = NoConv

\* a parser that is not run
IdleParser ==
    /\ parser = HTTPParser_new
    /\ mem = Mem0
    /\ fbuf = IOBuffer_new(0)
    /\ bbuf = IOBuffer_new(BufSize)
    /\ cin = <<>>
    /\ msg = <<>>
    /\ status = CONTINUE
    /\ calls = 0
    /\ asserts = TRUE

-----------------------------------------------------------------------------
(* Chunked bodies fed to parse_body *)

Chunk(size, ext, payload) == size \o ext \o CRLF \o payload \o CRLF

ChunkSet ==
    { Chunk(<<"1">>, <<>>, <<"a">>),
      Chunk(<<"0", "A">>, <<";", "x", "=", "1">>,
            <<CR, LF, "0", CR, LF, CR, LF, "f", ";", CR>>),
      Chunk(<<"1", "0">>, <<>>,
            <<"h", "e", "l", "l", "o", " ", "c", "h", "u", "n", "k", "e", "d", "!", "!", "!">>) }

LastChunkSet ==
    { <<"0">> \o CRLF \o CRLF,
      <<"0", "0", ";", "l", "a", "s", "t">> \o CRLF \o CRLF }

RECURSIVE ChunkSeqs(_)
ChunkSeqs(k) ==
    IF k = 0 THEN {<<>>}
    ELSE ChunkSeqs(k - 1) \cup
         {c \o rest : c \in ChunkSet, rest \in ChunkSeqs(k - 1)}

\* well-formed chunked bodies without a trailer
ChunkedBodies == {cs \o last : cs \in ChunkSeqs(MaxChunks), last \in LastChunkSet}

-----------------------------------------------------------------------------
(* SpecBody: a chunked request body arrives in arbitrary recv chunks, each   *)
(* handed to parse_body as Frontend::read_callback does at                    *)
(* REQUEST_HEAD_FINISHED.                                                     *)

\* the parser when the head of a chunked request has been parsed
BodyParser0 ==
    [HTTPParser_new EXCEPT !.parse_line = "parse_request_head", !.chunked = TRUE]

InitBody ==
    /\ parser = BodyParser0
    /\ mem = Mem0
    /\ fbuf = IOBuffer_new(0)
    /\ bbuf = IOBuffer_new(BufSize)
    /\ cin \in ChunkedBodies
    /\ msg = cin
    /\ status = CONTINUE
    /\ calls = 0
    /\ asserts = TRUE
    /\ IdlePool /\ IdleProxy /\ IdleLib

\* one recv of n bytes followed by parse_body on them
FeedBody ==
    /\ status = CONTINUE
    /\ \E n \in 1..Len(cin) :
         \E r \in {parse_body(parser, SubSeq(cin, 1, n))} :
         /\ parser' = r.p
         /\ status' = r.st
         /\ asserts' = (asserts /\ r.ok)
         /\ cin' = Drop(cin, n)
         /\ calls' = calls + 1
    /\ UNCHANGED <<libvars, mem, fbuf, bbuf, msg, poolvars, proxyvars>>

NextBody == FeedBody

SpecBody == InitBody /\ [][NextBody]_vars

\* C1: for a well-formed chunked body without trailer and any partition of
\* its bytes into recv chunks, parse_body returns CONTINUE on every call
\* before the one delivering the final LF and PROCEED on that call; it never
\* returns TERMINATE.
C1_ChunkedBodyProceedsAtFinalLF ==
    calls > 0 => status = (IF Len(cin) = 0 THEN PROCEED ELSE CONTINUE)

\* a body was delivered in at least three recv chunks and ended in PROCEED
C1_Witness == calls >= 3 /\ Len(cin) = 0 /\ status = PROCEED /\ parser.body_end

-----------------------------------------------------------------------------
(* SpecHead: a request head arrives in arbitrary recv chunks; each recv is   *)
(* followed by parse_head as in Frontend::read_callback at REQUEST_STARTED.  *)

\* lines of request heads
L_Get11 == <<"G", "E", "T", " ", "/", " ", "H", "T", "T", "P", "/", "1",
    ".", "1", "\r", "\n">>
L_Post10 == <<"P", "O", "S", "T", " ", "/", "p", " ", "H", "T", "T", "P",
    "/", "1", ".", "0", "\r", "\n">>
L_Host == <<"H", "o", "s", "t", ":", " ", "a", "\r", "\n">>
L_HostPort == <<"h", "O", "S", "T", ":", " ", "b", ":", "8", "1", "\r",
    "\n">>
L_ContentLength == <<"C", "o", "n", "t", "e", "n", "t", "-", "L", "e", "n",
    "g", "t", "h", ":", " ", "3", "\r", "\n">>
L_Chunked == <<"T", "r", "a", "n", "s", "f", "e", "r", "-", "E", "n", "c",
    "o", "d", "i", "n", "g", ":", " ", "c", "h", "u", "n", "k", "e", "d",
    "\r", "\n">>
L_NoTransform == <<"C", "a", "c", "h", "e", "-", "C", "o", "n", "t", "r",
    "o", "l", ":", " ", "n", "o", "-", "t", "r", "a", "n", "s", "f", "o",
    "r", "m", "\r", "\n">>
L_Close == <<"C", "o", "n", "n", "e", "c", "t", "i", "o", "n", ":", " ",
    "c", "l", "o", "s", "e", "\r", "\n">>
L_KeepAlive == <<"C", "o", "n", "n", "e", "c", "t", "i", "o", "n", ":",
    " ", "K", "e", "e", "p", "-", "A", "l", "i", "v", "e", "\r", "\n">>
L_Via == <<"V", "i", "a", ":", " ", "1", ".", "0", " ", "o", "t", "h", "e",
    "r", "\r", "\n">>
L_XFF == <<"X", "-", "F", "o", "r", "w", "a", "r", "d", "e", "d", "-", "F",
    "o", "r", ":", " ", "9", ".", "9", ".", "9", ".", "9", "\r", "\n">>
L_Folded == <<"X", "-", "A", ":", " ", "b", "\r", "\n", "\t", "c", "\r",
    "\n">>

\* valid request heads
RequestHeads ==
    { L_Get11 \o L_Host \o CRLF,
      L_Post10 \o L_HostPort \o L_KeepAlive \o L_ContentLength \o CRLF,
      L_Get11 \o L_Folded \o L_Host \o L_Via \o CRLF,
      L_Get11 \o L_Host \o L_XFF \o CRLF,
      L_Get11 \o L_Via \o L_Host \o L_XFF \o CRLF,
      L_Get11 \o L_NoTransform \o L_Via \o L_Host \o CRLF,
      L_Get11 \o L_Host \o L_XFF \o L_NoTransform \o CRLF,
      L_Post10 \o L_Chunked \o L_Host \o L_Close \o CRLF }

InitHead ==
    /\ parser = HTTPParser_new
    /\ mem = Mem0
    /\ fbuf = IOBuffer_new(0)
    /\ bbuf = IOBuffer_new(BufSize)
    /\ cin \in RequestHeads
    /\ msg = cin
    /\ status = CONTINUE
    /\ calls = 0
    /\ asserts = TRUE
    /\ IdlePool /\ IdleProxy /\ IdleLib

\* one recv of n bytes into the frontend buffer followed by parse_head
FeedHead ==
    /\ status = CONTINUE
    /\ \E n \in 1..Len(cin) :
         /\ n <= free_size(fbuf)
         /\ \E r \in {LET rv == IOBuffer_recv(fbuf, mem, SubSeq(cin, 1, n))
                      IN parse_head(Ctx(parser, rv.mem, rv.buf, bbuf), rv.rc)} :
               /\ parser' = r.c.p
               /\ mem' = r.c.mem
               /\ fbuf' = r.c.F
               /\ bbuf' = r.c.B
               /\ status' = r.st
               /\ cin' = Drop(cin, n)
               /\ calls' = IF calls < MaxCalls THEN calls + 1 ELSE calls
    /\ UNCHANGED <<libvars, msg, asserts, poolvars, proxyvars>>

NextHead == FeedHead

SpecHead == InitHead /\ [][NextHead]_vars

\* the parser after the whole head m arrived in a single recv
HeadInOneChunk(m) ==
    LET rv == IOBuffer_recv(IOBuffer_new(0), Mem0, m)
    IN parse_head(Ctx(HTTPParser_new, rv.mem, rv.buf, IOBuffer_new(BufSize)), rv.rc)

\* what a parsed request head yields: the parser fields and the emitted bytes
HeadFields(c) ==
    [method |-> Bytes(c.mem, c.p.method),
     request_uri |-> Bytes(c.mem, c.p.request_uri),
     host |-> Bytes(c.mem, c.p.host),
     port |-> c.p.port,
     content_length |-> c.p.content_length,
     chunked |-> c.p.chunked,
     keep_alive |-> c.p.keep_alive,
     force_close |-> c.p.force_close,
     emitted |-> Bytes(c.mem, OutputBuf(c))]

\* C2: for a valid request head and any partition of its bytes into recv
\* chunks, parse_head returns PROCEED on exactly the call delivering the last
\* byte of the terminating CRLFCRLF (CONTINUE before, never TERMINATE), and
\* then method, request_uri, host, port, content_length, chunked, keep_alive,
\* force_close and the emitted bytes equal those of the single-chunk parse.
C2_HeadPartitionEquivalence ==
    calls > 0 =>
        /\ status = (IF Len(cin) = 0 THEN PROCEED ELSE CONTINUE)
        /\ status = PROCEED =>
              /\ HeadInOneChunk(msg).st = PROCEED
              /\ HeadFields(Ctx(parser, mem, fbuf, bbuf)) =
                     HeadFields(HeadInOneChunk(msg).c)
C2_Witness ==
    /\ calls >= 3 /\ status = PROCEED /\ Len(cin) = 0
    /\ parser.via.n /= 0 /\ parser.host.n /= 0
    /\ Bytes(mem, bbuf) /= <<>>

-----------------------------------------------------------------------------
(* Reading heads as text: the vocabulary of the claims about emitted heads *)

\* the CRLF-terminated lines of the bytes s, each with its CRLF
RECURSIVE SplitLines(_)
SplitLines(s) ==
    LET crlf == FindStr(s, CRLF) IN
    IF Len(s) = 0 THEN <<>>
    ELSE IF crlf = npos THEN <<s>>
    ELSE <<SubSeq(s, 1, crlf + Len(CRLF))>> \o SplitLines(Drop(s, crlf + Len(CRLF)))

\* line is a header line with the given (case-insensitive) field name
IsHeader(line, name) ==
    LET colon == FindChar(line, ":", 0) IN
    colon /= npos /\ ci_equal(SubSeq(line, 1, colon), name)

\* the header lines of s with the given field name
LinesNamed(s, name) == SelectSeq(SplitLines(s), LAMBDA l : IsHeader(l, name))

\* a line without its terminating CRLF
Chomp(line) == SubSeq(line, 1, Len(line) - Len(CRLF))

\* the value of a header line: after the colon and leading white space
HeaderValue(line) ==
    LET colon == FindChar(line, ":", 0)
        val == FindFirstNotOf(line, LWSP, colon + 1)
    IN IF val = npos THEN <<>> ELSE SubSeq(line, val + 1, Len(line) - Len(CRLF))

\* the head carries Cache-Control: no-transform
HasNoTransform(head) ==
    \E i \in 1..Len(SplitLines(head)) :
        /\ IsHeader(SplitLines(head)[i], N_CACHE_CONTROL)
        /\ ci_equal(HeaderValue(SplitLines(head)[i]), NO_TRANSFORM)

\* the HTTP version named by the request line of head
RequestVersionText(head) ==
    LET l == SplitLines(head)[1]
        sp1 == FindChar(l, SP, 0)
        sp2 == FindChar(l, SP, sp1 + 1)
        sep == FindChar(l, "/", sp2 + 1)
    IN SubSeq(l, sep + 2, Len(l) - Len(CRLF))

\* the head emitted to the output buffer
Emitted == Bytes(mem, bbuf)

\* C3: a request head with exactly one Via header and no Cache-Control:
\* no-transform is emitted with exactly one Via header line, the original Via
\* text with ", <HTTP-VERSION> <LOCAL-IP>" appended on the same line before
\* its single CRLF (checked already for heads without X-Forwarded-For).
C3_ViaAppendedOnSameLine ==
    (/\ status = PROCEED
     /\ Len(LinesNamed(msg, N_VIA)) = 1
     /\ Len(LinesNamed(msg, N_X_FORWARDED_FOR)) = 0
     /\ ~HasNoTransform(msg))
    => /\ Len(LinesNamed(Emitted, N_VIA)) = 1
       /\ LinesNamed(Emitted, N_VIA)[1] =
              Chomp(LinesNamed(msg, N_VIA)[1]) \o comma \o RequestVersionText(msg)
                  \o <<SP>> \o LocalIP \o CRLF

\* C4: a request head with exactly one X-Forwarded-For header and no
\* Cache-Control: no-transform is emitted with exactly one X-Forwarded-For
\* line, the received text with ", <PEER-IP>" appended; without an
\* X-Forwarded-For header a new "X-Forwarded-For: <PEER-IP>" line is emitted.
C4_XForwardedForAppended ==
    (status = PROCEED /\ ~HasNoTransform(msg))
    => /\ Len(LinesNamed(msg, N_X_FORWARDED_FOR)) = 1
          => /\ Len(LinesNamed(Emitted, N_X_FORWARDED_FOR)) = 1
             /\ LinesNamed(Emitted, N_X_FORWARDED_FOR)[1] =
                    Chomp(LinesNamed(msg, N_X_FORWARDED_FOR)[1]) \o comma
                        \o PeerIP \o CRLF
       /\ Len(LinesNamed(msg, N_X_FORWARDED_FOR)) = 0
          => /\ Len(LinesNamed(Emitted, N_X_FORWARDED_FOR)) = 1
             /\ HeaderValue(LinesNamed(Emitted, N_X_FORWARDED_FOR)[1]) = PeerIP

\* C5: a request head carrying Cache-Control: no-transform is emitted with
\* its Via and X-Forwarded-For lines byte-identical to the received ones; an
\* absent hop header stays absent and no Via or X-Forwarded-For line is added.
C5_NoTransformPassesHopHeaders ==
    (status = PROCEED /\ HasNoTransform(msg))
    => /\ LinesNamed(Emitted, N_VIA) = LinesNamed(msg, N_VIA)
       /\ LinesNamed(Emitted, N_X_FORWARDED_FOR) = LinesNamed(msg, N_X_FORWARDED_FOR)

-----------------------------------------------------------------------------
(* SpecPool: sessions are built in pool nodes on accept, open a backend      *)
(* socket, and are released; release may be invoked again on a session that  *)
(* was already released.                                                     *)

InitPool == IdleParser /\ IdlePool /\ IdleProxy /\ IdleLib

\* every slot but n has seen another pool operation since its release
Disturb(sl, n) == [k \in Nodes |-> IF k = n THEN sl[k] ELSE [sl[k] EXCEPT !.quiet = FALSE]]

\* accept: new (*pool) Proxy(event_loop, conn_fd)
PoolAccept ==
    /\ pool.free /= nullptr
    /\ fds.nextfd <= MaxFds
    /\ \E g \in {Pool_get(pool)} :
         /\ pool' = g.pool
         /\ slots' = Disturb(
                [slots EXCEPT ![g.node] =
                    [NoSlot EXCEPT
                       !.live = TRUE,
                       !.ffd = NewFd(fds),
                       !.fe = start_conn_watcher([NoEndpoint EXCEPT !.fd = NewFd(fds)],
                                                 "conn_callback", {EV_READ})]],
                g.node)
         /\ fds' = OpenFd(fds)
    /\ UNCHANGED <<libvars, parservars, proxyvars>>

\* Backend::connect on the session in node n: socket() and the connect watcher
PoolConnect(n) ==
    /\ slots[n].live
    /\ slots[n].be.fd = 0
    /\ fds.nextfd <= MaxFds
    /\ slots' = [slots EXCEPT
                   ![n].bfd = NewFd(fds),
                   ![n].be = start_conn_watcher([NoEndpoint EXCEPT !.fd = NewFd(fds)],
                                                "connect_callback", {EV_READ, EV_WRITE})]
    /\ fds' = OpenFd(fds)
    /\ UNCHANGED <<libvars, parservars, proxyvars, pool>>

\* OnPool::release on the session in node n: ~Proxy, then Pool::release
PoolRelease(n) ==
    /\ slots[n].live
    /\ \E d \in {Proxy_destroy(slots[n], fds)} :
       \E pl \in {Pool_release(pool, n)} :
         /\ pool' = pl
         /\ fds' = d.fds
         /\ slots' = Disturb(
                [slots EXCEPT ![n] =
                    [d.slot EXCEPT !.live = FALSE, !.releases = 1, !.pushes = 1,
                                   !.count1 = free_chunks(pl), !.quiet = TRUE]],
                n)
    /\ UNCHANGED <<libvars, parservars, proxyvars>>

\* OnPool::release invoked a second time on the session of node n, which is
\* still on the free list: the destructor reads the fd members the first
\* release left at 0, then Pool::release pushes the node
PoolReleaseAgain(n) ==
    /\ ~slots[n].live
    /\ slots[n].releases = 1
    /\ \E d \in {Proxy_destroy(slots[n], fds)} :
         /\ pool' = Pool_release(pool, n)
         /\ fds' = d.fds
         /\ slots' = Disturb(
                [slots EXCEPT ![n] =
                    [d.slot EXCEPT !.releases = 2, !.pushes = @ + 1]],
                n)
    /\ UNCHANGED <<libvars, parservars, proxyvars>>

NextPool ==
    \/ PoolAccept
    \/ \E n \in Nodes : PoolConnect(n)
    \/ \E n \in Nodes : PoolRelease(n)
    \/ \E n \in Nodes : PoolReleaseAgain(n)

SpecPool == InitPool /\ [][NextPool]_vars

\* C6: release is idempotent: when release was invoked twice on a session,
\* each of its two file descriptors was closed at most once, its slot was
\* pushed onto the free list at most once, and the free count after the
\* second call equals the count after the first.
C6_ReleaseIdempotent ==
    \A n \in Nodes :
        slots[n].releases = 2 =>
            /\ fds.closes[slots[n].ffd] <= 1
            /\ slots[n].bfd /= 0 => fds.closes[slots[n].bfd] <= 1
            /\ slots[n].pushes <= 1
            /\ slots[n].quiet => free_chunks(pool) = slots[n].count1

-----------------------------------------------------------------------------
(* Proxy: one session between a client and an origin (src/connection.cc).    *)
(* A world w holds what a callback can touch: the parser context c, the      *)
(* session s, the fd table, the pool, the network net and the bytes cin      *)
(* waiting in the frontend socket.  A callback yields the world afterwards   *)
(* and its return value ret (TRUE: the session was released).                *)

\* enum Progress
REQUEST_STARTED == 0
REQUEST_HEAD_FINISHED == 1
REQUEST_FINISHED == 2
RESPONSE_STARTED == 3
RESPONSE_HEAD_FINISHED == 4
RESPONSE_WAIT_SHUTDOWN == 5
RESPONSE_FINISHED == 6

Min(a, b) == IF a < b THEN a ELSE b

World(p, m, F, B, s, t, pl, nt, ci) ==
    [c |-> Ctx(p, m, F, B), s |-> s, fds |-> t, pool |-> pl, net |-> nt, cin |-> ci]

Done(w, ret) == [w |-> w, ret |-> ret]

\* HTTPParser::restart_request(buffer), buffer being the frontend's
restart_request(p) ==
    [reset(p) EXCEPT !.found_line = NullStr,
                     !.parse_line = "parse_request_line",
                     !.input_buf = "F"]

\* HTTPParser::start_response
start_response(p) ==
    [reset(p) EXCEPT !.found_line = NullStr,
                     !.parse_line = "parse_response_line",
                     !.input_buf = p.output_buf]

\* IOBuffer::append(buffer::string&): as much of add as fits
IOBuffer_append(buf, m, add) ==
    Let(Min(Len(add), free_size(buf)), LAMBDA count :
        [buf |-> [buf EXCEPT !.n = buf.n + count],
         mem |-> Store(m, End(buf), SubSeq(add, 1, count))])

\* snprintf(buf, n, "%d", num) of IOBuffer::append(int), for num >= 0
RECURSIVE ToDecimal(_)
ToDecimal(num) ==
    IF num < 10 THEN <<DigitChars[num + 1]>>
    ELSE ToDecimal(num \div 10) \o <<DigitChars[(num % 10) + 1]>>

\* IOBuffer::send when ::send takes every byte: the buffer afterwards
\* (shrink_front(sent_size))
IOBuffer_sent(buf) == [buf EXCEPT !.b = End(buf), !.n = 0]

\* OnPool::release on the session: ~Proxy, then the node returns to the pool
Proxy_release(w) ==
    Let(Proxy_destroy(w.s, w.fds), LAMBDA d :
        [w EXCEPT !.s = [d.slot EXCEPT !.alive = FALSE],
                  !.fds = d.fds,
                  !.pool = Pool_release(w.pool, w.s.node),
                  !.net.releases = @ + 1])

\* getaddrinfo as seen by Frontend::resolve_host: the names a and b resolve to
\* one address, c to another, any other name fails (0)
Resolve(name) ==
    IF ci_equal(name, <<"a">>) \/ ci_equal(name, <<"b">>) THEN 1
    ELSE IF ci_equal(name, <<"c">>) THEN 2
    ELSE 0

\* what ::connect can report
ConnectOutcomes == {"failed_sync", "pending_ok", "pending_fail"}

\* SO_ERROR of a failed connect: ECONNREFUSED
SockErrors == {111}

strerror(err) ==
    IF err = 111
    THEN <<"C", "o", "n", "n", "e", "c", "t", "i", "o", "n", " ",
           "r", "e", "f", "u", "s", "e", "d">>
    ELSE <<"U", "n", "k", "n", "o", "w", "n", " ", "e", "r", "r", "o", "r">>

\* Backend::connect with the outcome oc of ::connect; .ret is its return value
Backend_connect(w, oc) ==
    Let([w EXCEPT !.fds = OpenFd(@),
                  !.s.be.fd = NewFd(w.fds),
                  !.net.opened = @ + 1,
                  !.net.conn = oc,
                  !.net.sin = <<>>,
                  !.net.seof = FALSE],
        LAMBDA w1 :
        IF oc = "failed_sync"
        THEN Done([w1 EXCEPT !.net.fail =
                       [NoFail EXCEPT !.how = "sync", !.at = w.s.progress]],
                  TRUE)
        ELSE Done([w1 EXCEPT !.s.be =
                       start_conn_watcher(@, "connect_callback",
                                          {EV_READ, EV_WRITE})], FALSE))

\* backend.shutdown(): the old backend connection is shut down
Backend_shutdown(w) ==
    Let(terminate(w.s.be, w.fds), LAMBDA t :
        [w EXCEPT !.s.be = t.ep, !.fds = t.fds])

\* needs_connect looking at the port only
needs_connect_port_only(parser_port, port, new_ip, host_ip) ==
    parser_port /= port

\* the test of line 130: the request needs another backend connection
needs_connect(parser_port, port, new_ip, host_ip) ==
    parser_port /= port \/ new_ip /= host_ip

\* lines 121-154 of Frontend::read_callback: the backend for the request whose
\* head just finished; .ret TRUE is the way to proxy.release()
Frontend_backend_for_request(w, oc) ==
    Let(Bytes(w.c.mem, w.c.p.host), LAMBDA phost :
        IF w.c.p.keep_alive
        THEN Let(IF ~ci_equal(phost, w.s.host)
                 THEN [set |-> TRUE, ip |-> Resolve(phost)]
                 ELSE [set |-> FALSE, ip |-> w.s.host_ip],
                 LAMBDA h :
                 Let([w EXCEPT !.s.host = IF h.set THEN phost ELSE @],
                     LAMBDA w1 :
                     IF h.ip = 0 THEN Done(w1, TRUE)
                     ELSE IF needs_connect(w.c.p.port, w.s.port, h.ip, w.s.host_ip)
                     THEN Backend_connect(
                              [Backend_shutdown(w1) EXCEPT
                                  !.s.host_ip = h.ip,
                                  !.s.port = w.c.p.port],
                              oc)
                     ELSE Done([w1 EXCEPT !.s.be =
                                    start_only_events(@, {EV_WRITE})], FALSE)))
        ELSE Let(Resolve(phost), LAMBDA ip :
                 Let([w EXCEPT !.s.port = w.c.p.port, !.s.host = phost],
                     LAMBDA w1 :
                     IF ip = 0 THEN Done(w1, TRUE)
                     ELSE Backend_connect([w1 EXCEPT !.s.host_ip = ip], oc))))

\* case REQUEST_HEAD_FINISHED of Frontend::read_callback
Frontend_request_body(w, chunk) ==
    Let(parse_body(w.c.p, chunk), LAMBDA r :
        IF r.st = PROCEED
        THEN Done([w EXCEPT !.c.p = r.p,
                            !.s.progress = REQUEST_FINISHED,
                            !.s.be = start_events(@, {EV_WRITE})], FALSE)
        ELSE IF r.st = TERMINATE
        THEN Done(Proxy_release([w EXCEPT !.c.p = r.p]), TRUE)
        ELSE Done([w EXCEPT !.c.p = r.p,
                            !.s.be = start_events(@, {EV_WRITE})], FALSE))

\* the Progress a finished request head leads to (lines 114-118)
request_head_progress(p) ==
    IF p.content_length = 0 \/ (p.content_length = cl_unset /\ ~p.chunked)
    THEN REQUEST_FINISHED
    ELSE REQUEST_HEAD_FINISHED

\* what the session did about its backend for a request under keep-alive:
\* w is the world when the head finished, b the result of lines 121-154
Decision(w, b) ==
    [kind |-> IF b.w.net.opened > w.net.opened THEN "connect"
              ELSE IF b.ret THEN "released"
              ELSE "reuse",
     same_name |-> ci_equal(Bytes(w.c.mem, w.c.p.host), w.s.host),
     same_port |-> w.c.p.port = w.s.port,
     same_ip |-> Resolve(Bytes(w.c.mem, w.c.p.host)) = w.s.host_ip,
     resolved |-> Resolve(Bytes(w.c.mem, w.c.p.host)) /= 0,
     opened |-> w.net.opened,
     old_fd |-> w.s.be.fd,
     old_closes |-> IF w.s.be.fd = 0 THEN 0 ELSE w.fds.closes[w.s.be.fd]]

\* lines 121-154 with the record of what was done
Frontend_choose_backend(w, oc) ==
    Let(Frontend_backend_for_request(w, oc), LAMBDA b :
        IF w.c.p.keep_alive
        THEN [b EXCEPT !.w.net.dec = Decision(w, b)]
        ELSE b)

\* case REQUEST_STARTED of Frontend::read_callback
Frontend_request_head(w, recv_chunk, oc) ==
    Let(parse_head(w.c, recv_chunk), LAMBDA r :
        IF r.st = TERMINATE THEN Done(Proxy_release([w EXCEPT !.c = r.c]), TRUE)
        ELSE IF r.st = CONTINUE THEN Done([w EXCEPT !.c = r.c], FALSE)
        ELSE IF r.c.p.host.n = 0 THEN Done(Proxy_release([w EXCEPT !.c = r.c]), TRUE)
        ELSE
        Let(Frontend_choose_backend(
                [w EXCEPT !.c = r.c,
                          !.s.progress = request_head_progress(r.c.p),
                          !.net.head = [k |-> w.net.nreq,
                                        req |-> w.net.req,
                                        fields |-> HeadFields(r.c),
                                        out |-> Bytes(r.c.mem, r.c.B)],
                          !.net.targets =
                              @ \cup {<<Bytes(r.c.mem, r.c.p.host), r.c.p.port>>}],
                oc),
            LAMBDA b :
            IF b.ret THEN Done(Proxy_release(b.w), TRUE)
            ELSE IF b.w.s.progress = REQUEST_FINISHED THEN b
            ELSE IF r.rc.n = 0 THEN b
            ELSE Frontend_request_body(b.w, Bytes(b.w.c.mem, r.rc))))

\* Proxy::Frontend::read_callback
Frontend_read_callback(w, oc) ==
    IF free_size(w.c.F) = 0
    THEN IF w.s.progress < REQUEST_HEAD_FINISHED
         THEN Done(Proxy_release(w), TRUE)
         ELSE Done([w EXCEPT !.s.fe = stop_events(@, {EV_READ}),
                             !.net.full = TRUE], FALSE)
    ELSE IF Len(w.cin) = 0
    THEN IF w.net.ceof THEN Done(Proxy_release(w), TRUE) ELSE Done(w, FALSE)
    ELSE
    Let(Min(Len(w.cin), free_size(w.c.F)), LAMBDA k :
    Let(IOBuffer_recv(w.c.F, w.c.mem, SubSeq(w.cin, 1, k)), LAMBDA rv :
    Let([w EXCEPT !.c.F = rv.buf, !.c.mem = rv.mem, !.cin = Drop(w.cin, k)],
        LAMBDA w1 :
        IF w.s.progress = REQUEST_STARTED
        THEN Frontend_request_head(w1, rv.rc, oc)
        ELSE IF w.s.progress = REQUEST_HEAD_FINISHED
        THEN Frontend_request_body(w1, Bytes(rv.mem, rv.rc))
        ELSE Done(w1, FALSE))))

\* buffer.send(fd) of Frontend::write_callback: the client takes the bytes
Frontend_send(w) ==
    IF w.c.F.n = 0 THEN Done(w, FALSE)
    ELSE Done([w EXCEPT
                 !.c.F = IOBuffer_sent(@),
                 !.net.cout = @ \o Bytes(w.c.mem, w.c.F),
                 !.net.awaiting =
                     IF w.s.progress = RESPONSE_FINISHED /\ w.c.B.n = 0
                     THEN FALSE ELSE @,
                 !.net.e502 = IF @ = "synthesized" THEN "sent" ELSE @],
              FALSE)

\* as Frontend::write_callback, but the restart does not wait for
\* RESPONSE_FINISHED
Frontend_write_callback_restarts_early(w) ==
    IF w.c.F.n = 0 /\ w.c.B.n = 0
    THEN IF w.c.p.keep_alive
         THEN Done([w EXCEPT
                      !.c.p = restart_request(@),
                      !.c.F = IOBuffer_reset(@),
                      !.c.B = IOBuffer_reset(@),
                      !.s.progress = REQUEST_STARTED,
                      !.s.fe = start_only_events(@, {EV_READ}),
                      !.net.restarts = Min(@ + 1, MaxRequests)],
                   FALSE)
         ELSE Done([w EXCEPT !.s.fe = stop_events(@, {EV_WRITE})], FALSE)
    ELSE IF w.c.F.n = 0
    THEN Frontend_send([w EXCEPT !.c.F = w.c.B,
                                 !.c.B = IOBuffer_reset(w.c.F),
                                 !.s.be = start_events(@, {EV_READ})])
    ELSE Frontend_send(w)

\* Proxy::Frontend::write_callback
Frontend_write_callback(w) ==
    IF w.c.F.n = 0 /\ w.c.B.n = 0
    THEN IF w.s.progress = RESPONSE_FINISHED
         THEN IF w.c.p.keep_alive
              THEN Done([w EXCEPT
                           !.c.p = restart_request(@),
                           !.c.F = IOBuffer_reset(@),
                           !.c.B = IOBuffer_reset(@),
                           !.s.progress = REQUEST_STARTED,
                           !.s.fe = start_only_events(@, {EV_READ}),
                           !.net.restarts = Min(@ + 1, MaxRequests),
                           !.net.e502 = IF @ = "sent" THEN "restarted" ELSE @],
                        FALSE)
              ELSE Done(Proxy_release(
                            [w EXCEPT !.net.e502 =
                                 IF @ = "sent" THEN "released" ELSE @]), TRUE)
         ELSE Done([w EXCEPT !.s.fe = stop_events(@, {EV_WRITE})], FALSE)
    ELSE IF w.c.F.n = 0
    THEN Frontend_send([w EXCEPT !.c.F = w.c.B,
                                 !.c.B = IOBuffer_reset(w.c.F),
                                 !.s.be = start_events(@, {EV_READ})])
    ELSE Frontend_send(w)

\* the 502 head of Backend::error_callback
BAD_GATEWAY ==
    <<"H", "T", "T", "P", "/", "1", ".", "1", " ", "5", "0", "2", " ",
      "B", "a", "d", " ", "G", "a", "t", "e", "w", "a", "y", "\r", "\n",
      "C", "o", "n", "n", "e", "c", "t", "i", "o", "n", ":", " ",
      "c", "l", "o", "s", "e", "\r", "\n",
      "C", "o", "n", "t", "e", "n", "t", "-", "T", "y", "p", "e", ":", " ",
      "t", "e", "x", "t", "/", "p", "l", "a", "i", "n", "\r", "\n",
      "\r", "\n">>

\* IOBuffer::appendm over a list of byte strings
RECURSIVE appendm(_, _, _)
appendm(buf, m, args) ==
    IF Len(args) = 0 THEN [buf |-> buf, mem |-> m]
    ELSE Let(IOBuffer_append(buf, m, Head(args)), LAMBDA r :
             appendm(r.buf, r.mem, Tail(args)))

\* Proxy::Frontend::set_error
Frontend_set_error(w, err, err_no) ==
    Let(appendm(IOBuffer_reset(w.c.F), w.c.mem,
                <<err, strerror(err_no), <<" ", "(">>, ToDecimal(err_no), <<")">> >>),
        LAMBDA r :
        [w EXCEPT !.c.F = r.buf,
                  !.c.mem = r.mem,
                  !.s.fe = start_only_events(@, {EV_WRITE})])

\* Proxy::Backend::error_callback
Backend_error_callback(w, err) ==
    IF w.s.progress /= REQUEST_FINISHED
    THEN Done(Proxy_release(w), TRUE)
    ELSE Done([Frontend_set_error(
                   [w EXCEPT !.s.progress = RESPONSE_FINISHED,
                             !.c.B = IOBuffer_reset(@),
                             !.net.e502 = "synthesized"],
                   BAD_GATEWAY, err)
               EXCEPT !.s.be = stop_all_events(@)], FALSE)

\* OnEventLoop::check_socket, run by connect_callback; err is SO_ERROR of a
\* connect that failed (a second getsockopt finds the error cleared)
Backend_check_socket(w, err) ==
    IF w.net.conn = "pending_fail"
    THEN Backend_error_callback(
             [w EXCEPT !.net.conn = "failed",
                       !.net.fail = [NoFail EXCEPT !.how = "async",
                                                   !.at = w.s.progress]],
             err)
    ELSE Done([w EXCEPT
                 !.s.be = start_conn_watcher(@, "conn_callback", {EV_WRITE}),
                 !.net.conn = IF @ = "pending_ok" THEN "up" ELSE @], FALSE)

\* buffer.send(fd) of Backend::write_callback: the origin takes the bytes of
\* a connected socket, a socket that never connected reports an error
Backend_send(w) ==
    IF w.net.conn /= "up" THEN Done(Proxy_release(w), TRUE)
    ELSE IF w.c.B.n = 0 THEN Done(w, FALSE)
    ELSE Done([w EXCEPT !.c.B = IOBuffer_sent(@),
                        !.net.sout = @ \o Bytes(w.c.mem, w.c.B)], FALSE)

\* Proxy::Backend::write_callback
Backend_write_callback(w) ==
    IF w.c.B.n = 0 /\ w.c.F.n = 0
    THEN IF w.s.progress = REQUEST_FINISHED
         THEN Done([w EXCEPT !.c.B = IOBuffer_reset(@),
                             !.s.progress = RESPONSE_STARTED,
                             !.s.be = start_only_events(@, {EV_READ}),
                             !.c.p = start_response(@)], FALSE)
         ELSE Done([w EXCEPT !.s.be = stop_events(@, {EV_WRITE})], FALSE)
    ELSE IF w.c.B.n = 0
    THEN Backend_send([w EXCEPT !.c.B = w.c.F,
                                !.c.F = IOBuffer_reset(w.c.B),
                                !.s.fe = start_events(@, {EV_READ})])
    ELSE Backend_send(w)

\* the Progress a finished response head leads to (lines 420-424)
response_head_progress(p) ==
    IF p.content_length = 0 THEN RESPONSE_FINISHED
    ELSE IF p.content_length = cl_unset /\ ~p.chunked
    THEN IF p.keep_alive THEN RESPONSE_FINISHED ELSE RESPONSE_WAIT_SHUTDOWN
    ELSE RESPONSE_HEAD_FINISHED

\* case RESPONSE_HEAD_FINISHED of Backend::read_callback
Backend_response_body(w, chunk) ==
    Let(parse_body(w.c.p, chunk), LAMBDA r :
        IF r.st = PROCEED
        THEN Done([w EXCEPT !.c.p = r.p,
                            !.s.progress = RESPONSE_FINISHED,
                            !.s.fe = start_events(@, {EV_WRITE})], FALSE)
        ELSE IF r.st = TERMINATE
        THEN Done(Proxy_release([w EXCEPT !.c.p = r.p]), TRUE)
        ELSE Done([w EXCEPT !.c.p = r.p,
                            !.s.fe = start_events(@, {EV_WRITE})], FALSE))

\* as case RESPONSE_STARTED of Backend::read_callback, but a part of a head
\* wakes the frontend as a part of a body does
Backend_response_head_wakes_frontend(w, recv_chunk) ==
    Let(parse_head(w.c, recv_chunk), LAMBDA r :
        IF r.st = TERMINATE THEN Done(Proxy_release([w EXCEPT !.c = r.c]), TRUE)
        ELSE IF r.st = CONTINUE
        THEN Done([w EXCEPT !.c = r.c,
                            !.s.fe = start_events(@, {EV_WRITE})], FALSE)
        ELSE
        Let([w EXCEPT !.c = r.c,
                      !.s.progress = response_head_progress(r.c.p),
                      !.s.fe = start_only_events(@, {EV_WRITE}),
                      !.net.rhead =
                          [k |-> w.net.nreq,
                           force_close |-> r.c.p.force_close,
                           keep_alive |-> r.c.p.keep_alive,
                           chunked |-> r.c.p.chunked,
                           content_length |-> r.c.p.content_length,
                           response_version |-> r.c.p.response_version,
                           progress |-> response_head_progress(r.c.p)]],
            LAMBDA w1 :
            IF w1.s.progress \in {RESPONSE_FINISHED, RESPONSE_WAIT_SHUTDOWN}
            THEN Done(w1, FALSE)
            ELSE IF r.rc.n = 0 THEN Done(w1, FALSE)
            ELSE Backend_response_body(w1, Bytes(w1.c.mem, r.rc))))

\* case RESPONSE_STARTED of Backend::read_callback
Backend_response_head(w, recv_chunk) ==
    Let(parse_head(w.c, recv_chunk), LAMBDA r :
        IF r.st = TERMINATE THEN Done(Proxy_release([w EXCEPT !.c = r.c]), TRUE)
        ELSE IF r.st = CONTINUE THEN Done([w EXCEPT !.c = r.c], FALSE)
        ELSE
        Let([w EXCEPT !.c = r.c,
                      !.s.progress = response_head_progress(r.c.p),
                      !.s.fe = start_only_events(@, {EV_WRITE}),
                      !.net.rhead =
                          [k |-> w.net.nreq,
                           force_close |-> r.c.p.force_close,
                           keep_alive |-> r.c.p.keep_alive,
                           chunked |-> r.c.p.chunked,
                           content_length |-> r.c.p.content_length,
                           response_version |-> r.c.p.response_version,
                           progress |-> response_head_progress(r.c.p)]],
            LAMBDA w1 :
            IF w1.s.progress \in {RESPONSE_FINISHED, RESPONSE_WAIT_SHUTDOWN}
            THEN Done(w1, FALSE)
            ELSE IF r.rc.n = 0 THEN Done(w1, FALSE)
            ELSE Backend_response_body(w1, Bytes(w1.c.mem, r.rc))))

\* Proxy::Backend::read_callback (::recv on a socket that never connected
\* reports an error)
Backend_read_callback(w) ==
    IF free_size(w.c.B) = 0
    THEN Done([w EXCEPT !.s.be = stop_events(@, {EV_READ})], FALSE)
    ELSE IF w.net.conn /= "up"
    THEN Done(Proxy_release(w), TRUE)
    ELSE IF Len(w.net.sin) = 0
    THEN IF w.net.seof
         THEN Done([w EXCEPT !.s.be = stop_all_events(@),
                             !.s.progress = RESPONSE_FINISHED,
                             !.s.fe = start_events(@, {EV_WRITE}),
                             !.net.shut =
                                 IF w.s.progress \in {RESPONSE_STARTED,
                                                      RESPONSE_HEAD_FINISHED}
                                 THEN w.s.progress ELSE @], FALSE)
         ELSE Done(w, FALSE)
    ELSE
    Let(Min(Len(w.net.sin), free_size(w.c.B)), LAMBDA k :
    Let(IOBuffer_recv(w.c.B, w.c.mem, SubSeq(w.net.sin, 1, k)), LAMBDA rv :
    Let([w EXCEPT !.c.B = rv.buf, !.c.mem = rv.mem,
                  !.net.sin = Drop(w.net.sin, k),
                  !.net.brecv = @ \o SubSeq(w.net.sin, 1, k),
                  !.net.early = @ \/ w.s.progress < REQUEST_FINISHED],
        LAMBDA w1 :
        IF w.s.progress = RESPONSE_STARTED
        THEN Backend_response_head(w1, rv.rc)
        ELSE IF w.s.progress = RESPONSE_HEAD_FINISHED
        THEN Backend_response_body(w1, Bytes(rv.mem, rv.rc))
        ELSE Done(w1, FALSE))))

\* conn_callback that goes on to write_callback whatever read_callback returned
Frontend_conn_callback_runs_both(w, revents, oc) ==
    Let(IF EV_READ \in revents THEN Frontend_read_callback(w, oc)
        ELSE Done(w, FALSE),
        LAMBDA r :
        IF EV_WRITE \in revents THEN Frontend_write_callback(r.w)
        ELSE r)

\* OnEventLoop::conn_callback of the frontend
Frontend_conn_callback(w, revents, oc) ==
    Let(IF EV_READ \in revents THEN Frontend_read_callback(w, oc)
        ELSE Done(w, FALSE),
        LAMBDA r :
        IF r.ret THEN r
        ELSE IF EV_WRITE \in revents THEN Frontend_write_callback(r.w)
        ELSE r)

\* OnEventLoop::conn_callback of the backend
Backend_conn_callback(w, revents) ==
    Let(IF EV_READ \in revents THEN Backend_read_callback(w)
        ELSE Done(w, FALSE),
        LAMBDA r :
        IF r.ret THEN r
        ELSE IF EV_WRITE \in revents THEN Backend_write_callback(r.w)
        ELSE r)

-----------------------------------------------------------------------------
(* SpecProxy: a client sends requests over one connection, the origin        *)
(* answers, and the event loop runs the callbacks of the session.            *)

L_Post11 == <<"P", "O", "S", "T", " ", "/", "p", " ", "H", "T", "T", "P",
    "/", "1", ".", "1", "\r", "\n">>
L_HostB == <<"H", "o", "s", "t", ":", " ", "b", "\r", "\n">>
L_HostC == <<"H", "o", "s", "t", ":", " ", "c", "\r", "\n">>
L_HostA81 == <<"H", "o", "s", "t", ":", " ", "a", ":", "8", "1", "\r", "\n">>
L_HostX == <<"H", "o", "s", "t", ":", " ", "x", "\r", "\n">>

\* the requests of the client
Requests ==
    { L_Get11 \o L_Host \o CRLF,
      L_Get11 \o L_Host \o L_Via \o CRLF,
      L_Get11 \o L_HostB \o CRLF,
      L_Get11 \o L_HostC \o CRLF,
      L_Get11 \o L_HostA81 \o CRLF,
      L_Get11 \o L_HostX \o CRLF,
      L_Post11 \o L_Host \o L_ContentLength \o CRLF \o <<"a", "b", "c">> }

R_200_11 == <<"H", "T", "T", "P", "/", "1", ".", "1", " ", "2", "0", "0", " ",
    "O", "K", "\r", "\n">>
R_200_10 == <<"H", "T", "T", "P", "/", "1", ".", "0", " ", "2", "0", "0", " ",
    "O", "K", "\r", "\n">>
R_ContentLength == <<"C", "o", "n", "t", "e", "n", "t", "-", "L", "e", "n",
    "g", "t", "h", ":", " ", "2", "\r", "\n">>

\* the responses of the origin: one that keeps the connection, one that is
\* ended by closing it
Responses ==
    { R_200_11 \o R_ContentLength \o CRLF \o <<"o", "k">>,
      R_200_10 \o CRLF \o <<"o", "k">> }

InitProxy == IdleParser /\ IdlePool /\ IdleProxy /\ IdleLib

TheWorld == World(parser, mem, fbuf, bbuf, sess, fds, pool, net, cin)

\* the frontend watcher waits for read readiness
FrontendReads(s) == s.alive /\ s.fe.active /\ EV_READ \in s.fe.events

\* a failed connect is recorded with what its handler left behind, and a stop
\* of the frontend's reads is forgotten once they are armed again
Snapshot(w) ==
    Let(IF w.net.full /\ FrontendReads(w.s)
        THEN [w EXCEPT !.net.full = FALSE] ELSE w,
        LAMBDA v :
        IF v.net.fail.how /= "none" /\ ~v.net.fail.seen
        THEN [v EXCEPT !.net.fail =
                 [@ EXCEPT !.seen = TRUE,
                           !.released = ~v.s.alive,
                           !.text = IF v.s.alive THEN Bytes(v.c.mem, v.c.F)
                                    ELSE <<>>,
                           !.be_active = v.s.alive /\ v.s.be.active,
                           !.fe_events = IF v.s.alive /\ v.s.fe.active
                                         THEN v.s.fe.events ELSE {}]]
        ELSE v)

\* the variables take the world a callback left
Becomes(w) ==
    /\ parser' = w.c.p
    /\ mem' = w.c.mem
    /\ fbuf' = w.c.F
    /\ bbuf' = w.c.B
    /\ sess' = w.s
    /\ fds' = w.fds
    /\ pool' = w.pool
    /\ net' = w.net
    /\ cin' = w.cin
    /\ UNCHANGED <<libvars, msg, status, calls, asserts, slots>>

\* accept: new (*pool) Proxy(event_loop, conn_fd)
Accept ==
    /\ ~sess.alive
    /\ net.allocs = 0
    /\ pool.free /= nullptr
    /\ \E g \in {Pool_get(pool)} :
         /\ pool' = g.pool
         /\ sess' = [NoSession EXCEPT
                       !.alive = TRUE,
                       !.node = g.node,
                       !.progress = REQUEST_STARTED,
                       !.fe = start_conn_watcher(
                                  [NoEndpoint EXCEPT !.fd = NewFd(fds)],
                                  "conn_callback", {EV_READ})]
    /\ fds' = OpenFd(fds)
    /\ net' = [net EXCEPT !.allocs = @ + 1]
    /\ UNCHANGED <<libvars, parservars, slots>>

\* the client writes a request once the previous one was answered
ClientSend ==
    /\ sess.alive
    /\ ~net.awaiting /\ ~net.ceof
    /\ Len(net.creq) = 0
    /\ net.nreq < MaxRequests
    /\ \E req \in Requests :
         net' = [net EXCEPT !.creq = req, !.req = req, !.nreq = @ + 1,
                            !.awaiting = TRUE, !.sresp = FALSE,
                            !.cout = <<>>, !.sout = <<>>,
                            !.brecv = <<>>]
    /\ UNCHANGED <<libvars, parservars, poolvars, sess>>

\* a segment of the request reaches the frontend socket
ClientDeliver ==
    /\ Len(net.creq) > 0
    /\ \E k \in {Min(Mss, Len(net.creq)), Len(net.creq)} :
         /\ cin' = cin \o SubSeq(net.creq, 1, k)
         /\ net' = [net EXCEPT !.creq = Drop(@, k)]
    /\ UNCHANGED <<libvars, parser, mem, fbuf, bbuf, msg, status, calls, asserts,
                   poolvars, sess>>

\* the client closes its connection between requests
ClientClose ==
    /\ sess.alive
    /\ net.nreq > 0
    /\ ~net.awaiting /\ ~net.ceof
    /\ net' = [net EXCEPT !.ceof = TRUE]
    /\ UNCHANGED <<libvars, parservars, poolvars, sess>>

\* the events the frontend socket is ready for
FrontendReady ==
    (IF Len(cin) > 0 \/ net.ceof THEN {EV_READ} ELSE {}) \cup {EV_WRITE}

\* the frontend watcher is active and its socket is ready for an event it
\* waits for
FrontendPending ==
    /\ sess.alive
    /\ sess.fe.active
    /\ sess.fe.events \cap FrontendReady /= {}
    /\ fds.nextfd <= MaxFds

\* the event loop runs conn_callback of the frontend watcher
FrontendEvent ==
    /\ FrontendPending
    /\ \E oc \in ConnectOutcomes :
       \E r \in {Frontend_conn_callback(TheWorld,
                                        sess.fe.events \cap FrontendReady, oc)} :
           Becomes(Snapshot(r.w))

\* the backend watcher waits for the outcome of connect, and it is known
ConnectPending ==
    /\ sess.alive
    /\ sess.be.active
    /\ sess.be.fd /= 0
    /\ sess.be.cb = "connect_callback"
    /\ net.conn \in {"pending_ok", "pending_fail", "up", "failed"}

\* the event loop runs connect_callback of the backend watcher
BackendConnected ==
    /\ ConnectPending
    /\ \E err \in SockErrors :
       \E r \in {Backend_check_socket(TheWorld, err)} :
           Becomes(Snapshot(r.w))

\* the events the backend socket is ready for
BackendReady ==
    (IF Len(net.sin) > 0 \/ net.seof \/ net.conn = "failed"
     THEN {EV_READ} ELSE {})
    \cup (IF net.conn \in {"up", "failed"} THEN {EV_WRITE} ELSE {})

\* the backend watcher is active and its socket is ready for an event it
\* waits for
BackendPending ==
    /\ sess.alive
    /\ sess.be.active
    /\ sess.be.fd /= 0
    /\ sess.be.cb = "conn_callback"
    /\ sess.be.events \cap BackendReady /= {}

\* the event loop runs conn_callback of the backend watcher
BackendEvent ==
    /\ BackendPending
    /\ \E r \in {Backend_conn_callback(TheWorld,
                                       sess.be.events \cap BackendReady)} :
           Becomes(Snapshot(r.w))

\* the origin answers the request it received
ServerRespond ==
    /\ sess.alive
    /\ net.conn = "up"
    /\ sess.progress = RESPONSE_STARTED
    /\ ~net.sresp /\ ~net.seof
    /\ \E resp \in Responses :
         net' = [net EXCEPT !.sin = @ \o resp, !.sresp = TRUE]
    /\ UNCHANGED <<libvars, parservars, poolvars, sess>>

\* the origin closes the connection after its answer
ServerClose ==
    /\ sess.alive
    /\ net.conn = "up"
    /\ net.sresp /\ ~net.seof
    /\ net' = [net EXCEPT !.seof = TRUE]
    /\ UNCHANGED <<libvars, parservars, poolvars, sess>>

NextProxy ==
    \/ Accept
    \/ ClientSend
    \/ ClientDeliver
    \/ ClientClose
    \/ FrontendEvent
    \/ BackendConnected
    \/ BackendEvent
    \/ ServerRespond
    \/ ServerClose

SpecProxy == InitProxy /\ [][NextProxy]_vars

\* the fields of a parsed request head that a request determines by itself
RequestFields(f) ==
    [method |-> f.method,
     request_uri |-> f.request_uri,
     host |-> f.host,
     port |-> f.port,
     content_length |-> f.content_length,
     chunked |-> f.chunked,
     force_close |-> f.force_close,
     emitted |-> f.emitted]

\* C7: under keep-alive with N sequential requests on one frontend connection
\* the session is allocated exactly once, and the k-th request yields the same
\* method, request_uri, host, port, content_length, chunked, force_close and
\* the same emitted head bytes (Via / X-Forwarded-For rewriting included) as
\* the same request parsed by a freshly constructed parser.
C7_KthRequestParsesAsFresh ==
    net.head.k >= 1 =>
        /\ net.allocs = 1
        /\ RequestFields(net.head.fields) =
               RequestFields(HeadFields(HeadInOneChunk(net.head.req).c))

\* the head of request names the backend the session is connected to: the
\* host name is the connected one or resolves to the connected address
SameHost(d) == d.same_name \/ d.same_ip

\* requests to one host:port open the backend socket once
OneTargetOneSocket ==
    \A t \in net.targets :
        (net.targets = {t} /\ net.head.k >= 1 /\ Resolve(t[1]) /= 0)
            => net.opened = 1

\* C8 (as stated): in keep-alive mode, when the next request's head finishes,
\* the backend connection is reused (no socket opened) if and only if the
\* request targets the same host and port as the connected backend; otherwise
\* the old connection is shut down and exactly one new connection is opened;
\* N sequential requests to one host:port open the backend socket once.
C8_ReusedIffSameHostPortElseReconnected ==
    /\ net.dec.kind /= "none" =>
         /\ net.dec.kind = "reuse" <=> (SameHost(net.dec) /\ net.dec.same_port)
         /\ net.dec.kind = "reuse" => net.opened = net.dec.opened
         /\ ~(SameHost(net.dec) /\ net.dec.same_port) =>
               /\ net.opened = net.dec.opened + 1
               /\ fds.closes[net.dec.old_fd] = net.dec.old_closes + 1
    /\ OneTargetOneSocket

\* C8 (amended): the connection is reused, and no socket opened, if and only
\* if the request's port is the connected port and its host name is the
\* connected one or resolves to the connected address; otherwise, if the host
\* name resolves, the old connection is shut down and exactly one socket is
\* opened, and if it does not resolve the session is released with no socket
\* opened; requests to one resolvable host:port open the backend socket once.
C8_ReusedIffSameAddressElseReconnectedIfResolved ==
    /\ net.dec.kind /= "none" =>
         /\ net.dec.kind = "reuse" <=> (SameHost(net.dec) /\ net.dec.same_port)
         /\ net.dec.kind = "reuse" => net.opened = net.dec.opened
         /\ (~(SameHost(net.dec) /\ net.dec.same_port) /\ net.dec.resolved) =>
               /\ net.dec.kind = "connect"
               /\ net.opened = net.dec.opened + 1
               /\ fds.closes[net.dec.old_fd] = net.dec.old_closes + 1
         /\ ~net.dec.resolved =>
               /\ net.dec.kind = "released"
               /\ net.opened = net.dec.opened
               /\ ~sess.alive
    /\ OneTargetOneSocket

\* a second request to another name of the connected address went out over
\* the connection of the first
C8_Witness ==
    /\ net.head.k = 2
    /\ net.dec.kind = "reuse"
    /\ ~net.dec.same_name
    /\ net.opened = 1
    /\ sess.alive
    /\ sess.progress = RESPONSE_STARTED

\* the 502 response for ECONNREFUSED
BadGateway111 ==
    <<"H", "T", "T", "P", "/", "1", ".", "1", " ", "5", "0", "2", " ",
      "B", "a", "d", " ", "G", "a", "t", "e", "w", "a", "y", "\r", "\n",
      "C", "o", "n", "n", "e", "c", "t", "i", "o", "n", ":", " ",
      "c", "l", "o", "s", "e", "\r", "\n",
      "C", "o", "n", "t", "e", "n", "t", "-", "T", "y", "p", "e", ":", " ",
      "t", "e", "x", "t", "/", "p", "l", "a", "i", "n", "\r", "\n",
      "\r", "\n",
      "C", "o", "n", "n", "e", "c", "t", "i", "o", "n", " ",
      "r", "e", "f", "u", "s", "e", "d", " ", "(", "1", "1", "1", ")">>

\* C9: when establishing the backend connection fails with Progress ==
\* REQUEST_FINISHED, reported by connect() or through SO_ERROR, the session is
\* not released: the frontend buffer holds the 502 Bad Gateway response with
\* the error text and number, all backend events are stopped and the frontend
\* is armed for writing; a failure at an earlier Progress releases the session.
C9_ConnectFailureAfterRequestGives502 ==
    net.fail.seen =>
        IF net.fail.at = REQUEST_FINISHED
        THEN /\ ~net.fail.released
             /\ net.fail.text = BadGateway111
             /\ ~net.fail.be_active
             /\ EV_WRITE \in net.fail.fe_events
        ELSE net.fail.released

\* C10: after a synthesized 502 Bad Gateway response was completely sent to
\* the client the session is released, never restarted for another request,
\* also for a request that follows earlier keep-alive responses.
C10_ReleasedAfter502Sent ==
    net.e502 /= "restarted"

-----------------------------------------------------------------------------
(* SpecFlow: one request and its response over one session, with bodies      *)
(* larger than a buffer, a head that fills the buffer, an origin that sends  *)
(* in segments and may close at any moment, and peers that write bytes       *)
(* belonging to no message.                                                  *)

Pad(n) == [i \in 1..n |-> "x"]

L_PostTo(url) == <<"P", "O", "S", "T", " ", "/">> \o url
    \o <<" ", "H", "T", "T", "P", "/", "1", ".", "1", "\r", "\n">>

L_ContentLengthOf(n) == <<"C", "o", "n", "t", "e", "n", "t", "-", "L", "e", "n",
    "g", "t", "h", ":", " ">> \o ToDecimal(n) \o CRLF

\* a request head of exactly BufSize bytes that is passed on as it is
FillingHead ==
    Let(L_Host \o L_NoTransform \o L_ContentLength \o CRLF, LAMBDA rest :
        L_PostTo(Pad(BufSize - Len(L_PostTo(<<>>)) - Len(rest))) \o rest)

\* the length of a body that does not fit the buffer behind its head
BigBody == BufSize - 32

\* the most the origin writes at once
Burst == 64

\* the bytes no message of the model contains
Junk == <<"!", "!">>

FlowRequests ==
    { L_Get11 \o L_Host \o CRLF,
      FillingHead \o <<"a", "b", "c">>,
      L_Post11 \o L_Host \o L_ContentLengthOf(BigBody) \o CRLF \o Pad(BigBody) }

\* two responses with a length, the second longer than what the origin writes
\* at once, and one that ends when the origin closes, its body larger than a
\* buffer
FlowResponses ==
    { R_200_11 \o R_ContentLength \o CRLF \o <<"o", "k">>,
      R_200_11 \o L_ContentLengthOf(Burst) \o CRLF \o Pad(Burst),
      R_200_10 \o CRLF \o Pad(BufSize + Burst) }

\* the client writes its request
FlowClientSend ==
    /\ sess.alive
    /\ net.nreq = 0
    /\ \E req \in FlowRequests :
         net' = [net EXCEPT !.creq = req, !.req = req, !.nreq = 1,
                            !.awaiting = TRUE]
    /\ UNCHANGED <<libvars, parservars, poolvars, sess>>

\* the client writes on after its request is complete
ClientExtra ==
    /\ sess.alive
    /\ sess.progress \in {REQUEST_FINISHED, RESPONSE_STARTED}
    /\ Len(net.creq) = 0 /\ Len(cin) = 0
    /\ "client" \notin net.extra
    /\ cin' = Junk
    /\ net' = [net EXCEPT !.extra = @ \cup {"client"}]
    /\ UNCHANGED <<libvars, parser, mem, fbuf, bbuf, msg, status, calls, asserts,
                   poolvars, sess>>

\* the origin starts to answer the request it received
FlowServerRespond ==
    /\ sess.alive
    /\ net.conn = "up"
    /\ sess.progress = RESPONSE_STARTED
    /\ ~net.sresp /\ ~net.seof
    /\ \E resp \in FlowResponses :
         net' = [net EXCEPT !.srest = resp, !.sresp = TRUE]
    /\ UNCHANGED <<libvars, parservars, poolvars, sess>>

\* a part of the response reaches the backend socket
ServerDeliver ==
    /\ Len(net.srest) > 0
    /\ \E k \in {Min(Burst, Len(net.srest)), Len(net.srest)} :
         net' = [net EXCEPT !.sin = @ \o SubSeq(net.srest, 1, k),
                            !.srest = Drop(@, k)]
    /\ UNCHANGED <<libvars, parservars, poolvars, sess>>

\* the origin closes its connection, whatever it has sent so far
FlowServerClose ==
    /\ sess.alive
    /\ net.conn = "up"
    /\ net.sresp /\ ~net.seof
    /\ net' = [net EXCEPT !.seof = TRUE, !.srest = <<>>]
    /\ UNCHANGED <<libvars, parservars, poolvars, sess>>

\* the origin writes on after the response is complete
ServerExtra ==
    /\ sess.alive
    /\ net.conn = "up"
    /\ sess.progress = RESPONSE_FINISHED
    /\ net.sresp /\ ~net.seof
    /\ Len(net.srest) = 0
    /\ "origin" \notin net.extra
    /\ net' = [net EXCEPT !.sin = @ \o Junk, !.extra = @ \cup {"origin"}]
    /\ UNCHANGED <<libvars, parservars, poolvars, sess>>

NextFlow ==
    \/ Accept
    \/ FlowClientSend
    \/ ClientDeliver
    \/ ClientExtra
    \/ FrontendEvent
    \/ BackendConnected
    \/ BackendEvent
    \/ FlowServerRespond
    \/ ServerDeliver
    \/ FlowServerClose
    \/ ServerExtra

SpecFlow == InitProxy /\ [][NextFlow]_vars

\* a callback that is run leaves another state than it found: the watcher of
\* a pending event is what ENABLED <<callback>>_vars says
CallbacksAct ==
    /\ FrontendPending =>
           \A oc \in ConnectOutcomes :
               Snapshot(Frontend_conn_callback(
                   TheWorld, sess.fe.events \cap FrontendReady, oc).w) /= TheWorld
    /\ ConnectPending =>
           \A err \in SockErrors :
               Snapshot(Backend_check_socket(TheWorld, err).w) /= TheWorld
    /\ BackendPending =>
           Snapshot(Backend_conn_callback(
               TheWorld, sess.be.events \cap BackendReady).w) /= TheWorld

\* ev_run is fair to the watchers (a callback whose event stays pending is
\* run), the kernel delivers what was written, and the origin answers what it
\* received and closes its connection in the end. The fairness of the three callbacks is weak fairness written
\* with their guards in place of ENABLED (see CallbacksAct).
SpecFlowFair ==
    /\ SpecFlow
    /\ WF_vars(ClientDeliver)
    /\ WF_vars(FlowServerRespond)
    /\ WF_vars(ServerDeliver)
    /\ WF_vars(FlowServerClose)
    /\ ([]<>(~FrontendPending) \/ []<><<FrontendEvent>>_vars)
    /\ ([]<>(~ConnectPending) \/ []<><<BackendConnected>>_vars)
    /\ ([]<>(~BackendPending) \/ []<><<BackendEvent>>_vars)

\* the frontend reads again, into a buffer that has room
ReadsResumed == FrontendReads(sess) /\ free_size(fbuf) > 0

\* C11: whenever the frontend stopped reading because recv reported BUFFER_FULL
\* with Progress >= REQUEST_HEAD_FINISHED, and the origin keeps accepting
\* writes, the frontend's reads are eventually armed again on a buffer with
\* free space (or the session has ended): the session does not stall
C11_ReadsResumeAfterBufferFull ==
    (sess.alive /\ net.full) ~> (ReadsResumed \/ ~sess.alive)

\* C12: when the origin shuts down its connection while a response is in
\* progress in a mode other than implicit length (Progress RESPONSE_STARTED, or
\* RESPONSE_HEAD_FINISHED with the body not complete), the session is released
C12_ShutdownInsideResponseReleases ==
    net.shut \in {RESPONSE_STARTED, RESPONSE_HEAD_FINISHED} => ~sess.alive

\* bytes of a response that wait in the buffers of the session
Buffered == fbuf.n + bbuf.n

\* C13: in RESPONSE_WAIT_SHUTDOWN every byte received from the origin is
\* eventually sent to the client, whatever the length of the body and the
\* interleaving of the callbacks: bytes that wait in the buffers of a session
\* in RESPONSE_WAIT_SHUTDOWN are eventually all sent
C13_WaitShutdownBytesReachClient ==
    (sess.alive /\ sess.progress = RESPONSE_WAIT_SHUTDOWN /\ Buffered > 0)
        ~> (Buffered = 0)

\* some byte of s is one of the bytes that belong to no message
HasJunk(s) == \E i \in 1..Len(s) : s[i] = Junk[1]

\* C14: bytes received from the origin after Progress has become
\* RESPONSE_FINISHED are ignored: they are never sent to the client
C14_BytesAfterResponseNeverSent ==
    "origin" \in net.extra => ~HasJunk(net.cout)

\* C15: bytes newly received from the client at or after REQUEST_FINISHED are
\* never forwarded to the origin
C15_BytesAfterRequestNeverForwarded ==
    "client" \in net.extra => ~HasJunk(net.sout)

\* the backend watcher waits for read readiness
BackendReads(s) ==
    s.alive /\ s.be.active /\ s.be.cb = "conn_callback" /\ EV_READ \in s.be.events

\* a watcher waits for write readiness
FrontendWrites(s) == s.alive /\ s.fe.active /\ EV_WRITE \in s.fe.events
BackendWrites(s) == s.alive /\ s.be.active /\ EV_WRITE \in s.be.events

WindowInside(buf) ==
    /\ buf.base <= buf.b
    /\ buf.b <= End(buf)
    /\ End(buf) <= buf.base + buf.cap

\* C17: the window of every IOBuffer stays inside its storage region after any
\* sequence of reset, recv, send, append, head rewriting and swap, and
\* free_size is the capacity less the distance of the window's end from base
C17_WindowsInsideStorage ==
    \A buf \in {fbuf, bbuf} :
        /\ WindowInside(buf)
        /\ free_size(buf) = buf.cap - (End(buf) - buf.base)
        /\ buf.base \in {0, BufSize} /\ buf.cap = BufSize

\* the frontend's window begins behind the request head that was rewritten
\* into the backend buffer, and a recv has filled the region to its end
C17_Witness ==
    /\ fbuf.base = 0 /\ fbuf.b > fbuf.base /\ fbuf.n > 0
    /\ free_size(fbuf) = 0
    /\ bbuf.base = BufSize /\ bbuf.n > 0

-----------------------------------------------------------------------------
(* SpecFill: request heads whose rewritten form is about as long as the      *)
(* output buffer arrive in segments and are handed to parse_head.            *)

L_GetTo(url) == <<"G", "E", "T", " ", "/">> \o url
    \o <<" ", "H", "T", "T", "P", "/", "1", ".", "1", "\r", "\n">>

\* the headers of the heads: none to rewrite, a Via and an X-Forwarded-For to
\* extend, and a head to pass on as it is
FillHeaders ==
    { L_Host, L_Host \o L_Via, L_XFF \o L_Host, L_NoTransform \o L_Host }

\* the shortest request URI of the heads
MinFill == BufSize - 96

\* heads that fit the input buffer, with request URIs of every length that
\* makes the rewritten head end before or behind the end of the output buffer
FillHeads ==
    { L_GetTo(Pad(k)) \o h \o CRLF :
        k \in MinFill..(BufSize - Len(L_GetTo(<<>>)) - Len(L_Host) - Len(CRLF)),
        h \in FillHeaders }

InitFill ==
    /\ parser = HTTPParser_new
    /\ mem = Mem0
    /\ fbuf = IOBuffer_new(0)
    /\ bbuf = IOBuffer_new(BufSize)
    /\ cin \in {m \in FillHeads : Len(m) <= BufSize}
    /\ msg = cin
    /\ status = CONTINUE
    /\ calls = 0
    /\ asserts = TRUE
    /\ IdlePool /\ IdleProxy /\ IdleLib

\* one recv of a segment, or of all that is left, followed by parse_head
FeedSegment ==
    /\ status = CONTINUE
    /\ Len(cin) > 0
    /\ \E n \in {Min(Mss, Len(cin)), Len(cin)} :
         /\ n <= free_size(fbuf)
         /\ \E r \in {Let(IOBuffer_recv(fbuf, mem, SubSeq(cin, 1, n)), LAMBDA rv :
                          parse_head(Ctx(parser, rv.mem, rv.buf, bbuf), rv.rc))} :
               /\ parser' = r.c.p
               /\ mem' = r.c.mem
               /\ fbuf' = r.c.F
               /\ bbuf' = r.c.B
               /\ status' = r.st
               /\ cin' = Drop(cin, n)
               /\ calls' = IF calls < MaxCalls THEN calls + 1 ELSE calls
    /\ UNCHANGED <<libvars, msg, asserts, poolvars, proxyvars>>

NextFill == FeedSegment

SpecFill == InitFill /\ [][NextFill]_vars

\* what parse_head emits for the head m into an output buffer with room for
\* three times BufSize
EmittedWithRoom(m) ==
    Let(IOBuffer_recv(IOBuffer_new(0), Mem0 \o Mem0, m), LAMBDA rv :
    Let(parse_head(Ctx(HTTPParser_new, rv.mem, rv.buf,
                       [b |-> BufSize, n |-> 0, base |-> BufSize,
                        cap |-> 3 * BufSize]), rv.rc),
        LAMBDA r : Bytes(r.c.mem, r.c.B)))

\* the bytes parse_head has put into the output buffer: its window when the
\* head is finished, what lies before the window otherwise
Written ==
    IF status = PROCEED THEN Bytes(mem, bbuf)
    ELSE SubSeq(mem, bbuf.base + 1, bbuf.b)

IsPrefix(s, t) == Len(s) <= Len(t) /\ SubSeq(t, 1, Len(s)) = s

\* s is made of whole lines
WholeLines(s) == Len(s) = 0 \/ (Len(s) >= 2 /\ SubSeq(s, Len(s) - 1, Len(s)) = CRLF)

\* nothing is written outside the output buffer
NoOverrun == Len(mem) = 2 * BufSize /\ WindowInside(bbuf) /\ bbuf.base = BufSize

\* C18: the parser never writes more bytes into the output buffer than its
\* free capacity: whenever a line (copied header, injected Via /
\* X-Forwarded-For, or final CRLF) would exceed free_size, nothing is written
\* for that line and parse_head returns TERMINATE
C18_NothingWrittenForLineThatOverflows ==
    /\ NoOverrun
    /\ (calls > 0 /\ status /= CONTINUE) =>
          IF Len(EmittedWithRoom(msg)) <= BufSize
          THEN status = PROCEED /\ Written = EmittedWithRoom(msg)
          ELSE status = TERMINATE /\ IsPrefix(Written, EmittedWithRoom(msg))
                /\ WholeLines(Written)

\* C18 as the code has it: nothing is written behind the end of the output
\* buffer, and parse_head returns TERMINATE exactly for the heads whose
\* rewritten form does not fit; what was written before is the beginning of
\* the rewritten head, up to the first piece (a copied line, one of the pieces
\* an injected line is copied from, or the final CRLF) that does not fit
C18_NoOverrunAndTerminate ==
    /\ NoOverrun
    /\ (calls > 0 /\ status /= CONTINUE) =>
          IF Len(EmittedWithRoom(msg)) <= BufSize
          THEN status = PROCEED /\ Written = EmittedWithRoom(msg)
          ELSE status = TERMINATE /\ IsPrefix(Written, EmittedWithRoom(msg))

\* a head whose injected Via line does not fit: parse_head returned TERMINATE
\* with the line's name written and its value not
C18_Witness ==
    /\ status = TERMINATE
    /\ Len(EmittedWithRoom(msg)) > BufSize
    /\ Len(Written) > 0 /\ ~WholeLines(Written)

-----------------------------------------------------------------------------
(* SpecKeep: a client whose requests on one connection may lack the Host     *)
(* header, ask for the connection to be closed or be HTTP/1.0, and an origin *)
(* that may ask for the close itself.                                        *)

L_Get10 == <<"G", "E", "T", " ", "/", " ", "H", "T", "T", "P", "/", "1",
    ".", "0", "\r", "\n">>

\* the requests of the client
KeepRequests ==
    { L_Get11 \o L_Host \o CRLF,
      L_Get11 \o L_NoTransform \o CRLF,
      L_Get11 \o L_Host \o L_Close \o CRLF,
      L_Get10 \o L_Host \o CRLF,
      L_Get10 \o L_Host \o L_KeepAlive \o CRLF }

\* the responses of the origin
KeepResponses ==
    Responses
    \cup { R_200_11 \o R_ContentLength \o L_Close \o CRLF \o <<"o", "k">>,
           R_200_11 \o R_ContentLength \o L_KeepAlive \o CRLF \o <<"o", "k">> }

\* the request has a Host header
HasHost(req) ==
    \E i \in 1..Len(req) :
        /\ i + 4 <= Len(req)
        /\ SubSeq(req, i, i + 4) = <<"\n", "H", "o", "s", "t">>

\* the client writes a request once the previous one was answered
KeepClientSend ==
    /\ sess.alive
    /\ ~net.awaiting /\ ~net.ceof
    /\ Len(net.creq) = 0
    /\ net.nreq < MaxRequests
    /\ \E req \in KeepRequests :
         net' = [net EXCEPT !.creq = req, !.req = req, !.nreq = @ + 1,
                            !.awaiting = TRUE, !.sresp = FALSE,
                            !.cout = <<>>, !.sout = <<>>,
                            !.brecv = <<>>]
    /\ UNCHANGED <<libvars, parservars, poolvars, sess>>

\* the origin answers the request it received
KeepServerRespond ==
    /\ sess.alive
    /\ net.conn = "up"
    /\ sess.progress = RESPONSE_STARTED
    /\ ~net.sresp /\ ~net.seof
    /\ \E resp \in KeepResponses :
         net' = [net EXCEPT !.sin = @ \o resp, !.sresp = TRUE]
    /\ UNCHANGED <<libvars, parservars, poolvars, sess>>

NextKeep ==
    \/ Accept
    \/ KeepClientSend
    \/ ClientDeliver
    \/ ClientClose
    \/ FrontendEvent
    \/ BackendConnected
    \/ BackendEvent
    \/ KeepServerRespond
    \/ ServerClose

SpecKeep == InitProxy /\ [][NextKeep]_vars

\* the request the client sent last has reached the parser whole
RequestRead == net.nreq >= 1 /\ Len(net.creq) = 0 /\ Len(cin) = 0

\* C19: for every request on a session, including each request after a
\* keep-alive restart, if the request head finishes without a Host header then
\* the session is released and no backend connection is opened or written for
\* that request: its head never reaches the choice of the backend, nothing is
\* written to the origin, and the session is gone once the request was read
C19_NoHostReleasesWithoutBackend ==
    (net.nreq >= 1 /\ ~HasHost(net.req)) =>
        /\ net.head.k /= net.nreq
        /\ net.sout = <<>>
        /\ RequestRead => ~sess.alive

\* C20: whenever a response head finishes while force_close is true (the
\* request was HTTP/1.0 without Connection: keep-alive, or carried
\* Connection: close), keep_alive is false, in every request/response cycle
\* of a session
C20_ForceCloseMeansNoKeepAlive ==
    (net.rhead.k >= 1 /\ net.rhead.force_close) => ~net.rhead.keep_alive

-----------------------------------------------------------------------------
(* Release and the dispatcher *)

\* C21: once a handler has released the session (returned true), no further
\* handler of that session runs, neither in the same wakeup nor in a later
\* one: release is invoked at most once per session, and a released session
\* has no active watcher and no descriptor left for the event loop to call
\* a handler on
C21_NoHandlerAfterRelease ==
    /\ net.releases <= net.allocs
    /\ ~sess.alive =>
          /\ ~sess.fe.active /\ ~sess.be.active
          /\ sess.fe.fd = 0 /\ sess.be.fd = 0

\* a session released by a handler after it had connected to the origin and
\* had been restarted: both its descriptors were closed
C21_Witness ==
    /\ net.allocs = 1 /\ net.releases = 1
    /\ ~sess.alive
    /\ net.opened >= 1 /\ net.restarts >= 1
    /\ \A fd \in 1..2 : fds.closes[fd] = 1

-----------------------------------------------------------------------------
(* SpecAlloc: a user of a Pool by itself (src/test/memory.cc, check): blocks *)
(* are taken with get and given back with release in any order.             *)

InitAlloc ==
    /\ IdleParser /\ IdleProxy
    /\ slots = [n \in Nodes |-> NoSlot]
    /\ fds = Fds0
    /\ cache = NoCache
    /\ conv = NoConv
    /\ \E size \in 1..PoolSize :
         /\ pool = add_pool(size)
         /\ alloc = [NoAlloc EXCEPT !.cap = size]

\* the record of a call: what the call before it was becomes the previous one
Called(op, node) ==
    [alloc EXCEPT !.op = op, !.node = node, !.before = pool,
                  !.prevop = alloc.op, !.prevnode = alloc.node,
                  !.prevbefore = alloc.before]

\* pool->get(), or new (*pool) Obj
AllocGet ==
    /\ \E g \in {Pool_get_or_throw(pool)} :
         /\ pool' = g.pool
         /\ alloc' = IF g.thrown
                     THEN Called("bad_alloc", g.node)
                     ELSE [Called("get", g.node) EXCEPT
                              !.held = Append(@, g.node)]
    /\ UNCHANGED <<parservars, slots, fds, proxyvars, cache, conv>>

\* pool->release(block) of a block that is held
AllocRelease ==
    /\ \E i \in 1..Len(alloc.held) :
         /\ pool' = Pool_release(pool, alloc.held[i])
         /\ alloc' = [Called("release", alloc.held[i]) EXCEPT
                         !.held = SubSeq(@, 1, i - 1)
                                  \o SubSeq(@, i + 1, Len(@))]
    /\ UNCHANGED <<parservars, slots, fds, proxyvars, cache, conv>>

NextAlloc ==
    \/ AllocGet
    \/ AllocRelease

SpecAlloc == InitAlloc /\ [][NextAlloc]_vars

\* C22: for a pool of capacity C and any sequence of get and release in which
\* only blocks currently handed out are released, free_chunks() equals C
\* minus the number of blocks handed out; a get followed by the release of
\* the same block restores the free count there was before the get, and a get
\* after a release returns the block released most recently
C22_FreeCountAndLifo ==
    /\ free_chunks(pool) = alloc.cap - Len(alloc.held)
    /\ (alloc.op = "release" /\ alloc.prevop = "get"
        /\ alloc.node = alloc.prevnode)
           => free_chunks(pool) = free_chunks(alloc.prevbefore)
    /\ (alloc.op = "get" /\ alloc.prevop = "release")
           => alloc.node = alloc.prevnode

\* a block was released while others were held, and the get after it returned
\* that block
C22_Witness ==
    /\ alloc.op = "get" /\ alloc.prevop = "release"
    /\ alloc.node = alloc.prevnode
    /\ Len(alloc.held) >= 2
    /\ alloc.held[1] > alloc.node
    /\ free_chunks(pool) = alloc.cap - Len(alloc.held)

\* C23: allocating from a pool of capacity C succeeds for exactly the first C
\* allocations without a release in between: a get succeeds, with a block
\* that was not held, while fewer than C blocks are held; with C blocks held
\* it fails with std::bad_alloc and leaves the free list and the blocks held
\* as they were
C23_ExhaustionAfterCapacity ==
    /\ Len(alloc.held) <= alloc.cap
    /\ \A i, j \in 1..Len(alloc.held) :
           alloc.held[i] = alloc.held[j] => i = j
    /\ alloc.op = "get" =>
           /\ alloc.node /= nullptr
           /\ free_chunks(alloc.before) > 0
           /\ alloc.held[Len(alloc.held)] = alloc.node
    /\ alloc.op = "bad_alloc" =>
           /\ Len(alloc.held) = alloc.cap
           /\ pool = alloc.before
           /\ free_chunks(pool) = 0

\* the allocation after PoolSize successful ones failed
C23_Witness ==
    /\ alloc.cap = PoolSize
    /\ alloc.op = "bad_alloc" /\ alloc.prevop = "get"
    /\ Len(alloc.held) = PoolSize
    /\ pool = alloc.before

-----------------------------------------------------------------------------
(* NameCache<PoolAllocator<>> (src/cache.h): a std::map from DomainName to   *)
(* DomainValue and the std::list mru of map iterators, both allocating their *)
(* nodes from a Pool.  A map element is [name, ctime, host_ip, node,         *)
(* list_it], node being its map node and list_it the list node that points   *)
(* back at it; a list element is [node, it], it being a map node.            *)

\* std::map::find with DomainName::operator<, which compares istrings: the
\* elements whose name equals name without regard to case (none: end())
map_find(c, name) == {e \in c.map : ci_equal(e.name, name)}

\* std::list::erase of the element in list node n
list_erase(l, n) == SelectSeq(l, LAMBDA x : x.node /= n)

\* mru.splice(mru.begin(), mru, l_it)
list_splice_front(l, n) ==
    SelectSeq(l, LAMBDA x : x.node = n) \o SelectSeq(l, LAMBDA x : x.node /= n)

\* map::erase(it) followed by mru.erase(l_it): both nodes go back to their
\* pools (PoolAllocator::deallocate)
erase_both(c, it) ==
    [c EXCEPT !.map = @ \ {it},
              !.map_pool = Pool_release(@, it.node),
              !.mru = list_erase(@, it.list_it),
              !.list_pool = Pool_release(@, it.list_it)]

\* NameCache::get(in_addr &host_ip, DomainName &name); c.now is time(nullptr)
NameCache_get(c, host_ip, name) ==
    IF map_find(c, name) = {}
    THEN [c |-> c, ret |-> FALSE, host_ip |-> host_ip]
    ELSE Let(CHOOSE e \in map_find(c, name) : TRUE, LAMBDA it :
             IF it.ctime + c.item_lifetime < c.now
             THEN [c |-> erase_both(c, it), ret |-> FALSE, host_ip |-> host_ip]
             ELSE [c |-> [c EXCEPT !.mru = list_splice_front(@, it.list_it)],
                   ret |-> TRUE, host_ip |-> it.host_ip])

\* an insert that erases the most recently used element of a full cache
erase_mru(c) ==
    IF Cardinality(c.map) = c.max_capacity
    THEN Let(c.mru[1], LAMBDA l :
             erase_both(c, CHOOSE e \in c.map : e.node = l.it))
    ELSE c

\* an insert that erases nothing
erase_none(c) == c

\* the head of insert: with max_capacity elements in the map the element the
\* last list element points at is erased
erase_lru(c) ==
    IF Cardinality(c.map) = c.max_capacity
    THEN Let(c.mru[Len(c.mru)], LAMBDA l :
             erase_both(c, CHOOSE e \in c.map : e.node = l.it))
    ELSE c

\* the tail of insert: map::insert, which changes nothing when the name is
\* there, then mru.push_front; thrown: an allocation raised std::bad_alloc
insert_new(c, host_ip, name) ==
    IF map_find(c, name) /= {} THEN [c |-> c, thrown |-> FALSE]
    ELSE
    Let(Pool_get_or_throw(c.map_pool), LAMBDA m :
        IF m.thrown THEN [c |-> c, thrown |-> TRUE]
        ELSE
        Let(Pool_get_or_throw(c.list_pool), LAMBDA l :
            IF l.thrown
            THEN [c |-> [c EXCEPT
                           !.map = @ \cup {[name |-> name, ctime |-> c.now,
                                            host_ip |-> host_ip, node |-> m.node,
                                            list_it |-> nullptr]},
                           !.map_pool = m.pool],
                  thrown |-> TRUE]
            ELSE [c |-> [c EXCEPT
                           !.map = @ \cup {[name |-> name, ctime |-> c.now,
                                            host_ip |-> host_ip, node |-> m.node,
                                            list_it |-> l.node]},
                           !.map_pool = m.pool,
                           !.mru = <<[node |-> l.node, it |-> m.node]>> \o @,
                           !.list_pool = l.pool],
                  thrown |-> FALSE]))

\* NameCache::insert(in_addr &host_ip, DomainName &name)
NameCache_insert(c, host_ip, name) == insert_new(erase_lru(c), host_ip, name)

\* NameCacheInit and NameCache(): two pools of pool_size nodes, and a cache of
\* that capacity
NameCacheOnPool(pool_size, lifetime) ==
    [max_capacity |-> pool_size, item_lifetime |-> lifetime, now |-> 0,
     map |-> {}, mru |-> <<>>,
     map_pool |-> add_pool(pool_size), list_pool |-> add_pool(pool_size)]

-----------------------------------------------------------------------------
(* SpecCache: names are inserted into and looked up in a NameCache of a      *)
(* capacity from 1 to CacheSize while the clock advances (src/test/memory.cc,*)
(* check2).  cache.c is the NameCache; the other fields record the last call *)
(* (op, name, ret, host_ip, thrown), the cache before it (before), and the   *)
(* names cached in the order of their last use, most recent first (used;     *)
(* wasused before the call).                                                 *)

\* the names of the harness: a and A are one domain name
CacheNames == << <<"a">>, <<"A">>, <<"b">>, <<"c">> >>
CacheKeys == { <<"a">>, <<"b">>, <<"c">> }

\* the name as the map orders it
Key(name) == CHOOSE k \in CacheKeys : ci_equal(k, name)
KeysOf(map) == {Key(e.name) : e \in map}

\* the address a resolver gave for the name as it was written
AddressOf(name) == IndexIn(CacheNames, name)

\* s without the elements in the set gone
Without(s, gone) == SelectSeq(s, LAMBDA k : k \notin gone)

InitCache ==
    /\ IdleParser /\ IdlePool /\ IdleProxy
    /\ alloc = NoAlloc
    /\ conv = NoConv
    /\ \E size \in 1..CacheSize :
         cache = [built |-> TRUE, c |-> NameCacheOnPool(size, Lifetime),
                  op |-> "none", name |-> <<>>, ret |-> FALSE, host_ip |-> 0,
                  thrown |-> FALSE, before |-> NameCacheOnPool(size, Lifetime),
                  used |-> <<>>, wasused |-> <<>>]

\* cache.insert(host_ip, name): by the order of use, a full cache loses the
\* name used least recently, and a name that is then not cached becomes the
\* one used most recently
CacheInsert ==
    /\ \E i \in 1..Len(CacheNames) :
       \E r \in {NameCache_insert(cache.c, AddressOf(CacheNames[i]), CacheNames[i])} :
       \E kept \in {IF Len(cache.used) = cache.c.max_capacity
                    THEN SubSeq(cache.used, 1, Len(cache.used) - 1)
                    ELSE cache.used} :
         cache' = [cache EXCEPT
                     !.c = r.c, !.op = "insert", !.name = CacheNames[i],
                     !.ret = FALSE, !.host_ip = AddressOf(CacheNames[i]),
                     !.thrown = r.thrown, !.before = cache.c,
                     !.wasused = cache.used,
                     !.used = IF \E j \in 1..Len(kept) : kept[j] = Key(CacheNames[i])
                              THEN kept
                              ELSE <<Key(CacheNames[i])>> \o kept]
    /\ UNCHANGED <<parservars, poolvars, proxyvars, alloc, conv>>

\* cache.get(host_ip, name): a name that is found was used; a name that is
\* no longer cached was dropped
CacheGet ==
    /\ \E i \in 1..Len(CacheNames) :
       \E r \in {NameCache_get(cache.c, 0, CacheNames[i])} :
         cache' = [cache EXCEPT
                     !.c = r.c, !.op = "get", !.name = CacheNames[i],
                     !.ret = r.ret, !.host_ip = r.host_ip,
                     !.thrown = FALSE, !.before = cache.c,
                     !.wasused = cache.used,
                     !.used = IF r.ret
                              THEN <<Key(CacheNames[i])>>
                                   \o Without(cache.used, {Key(CacheNames[i])})
                              ELSE Without(cache.used,
                                           CacheKeys \ KeysOf(r.c.map))]
    /\ UNCHANGED <<parservars, poolvars, proxyvars, alloc, conv>>

\* a second passes
CacheTick ==
    /\ cache.c.now < MaxTime
    /\ cache' = [cache EXCEPT !.c.now = @ + 1]
    /\ UNCHANGED <<parservars, poolvars, proxyvars, alloc, conv>>

NextCache ==
    \/ CacheInsert
    \/ CacheGet
    \/ CacheTick

SpecCache == InitCache /\ [][NextCache]_vars

\* the last call found the cache full
WasFull == Cardinality(cache.before.map) = cache.before.max_capacity

\* C24: after any sequence of insert and get on a name cache of capacity C
\* the number of cached entries never exceeds C and the cache never draws
\* more than C nodes from the map-node pool or the list-node pool: no
\* allocation raises the exhaustion error, each pool has handed out one node
\* per entry, and the insert of a name that is not cached into a full cache
\* leaves exactly C entries
C24_AtMostCapacityEntriesAndNodes ==
    /\ Cardinality(cache.c.map) <= cache.c.max_capacity
    /\ Len(cache.c.mru) = Cardinality(cache.c.map)
    /\ ~cache.thrown
    /\ free_chunks(cache.c.map_pool)
           = cache.c.max_capacity - Cardinality(cache.c.map)
    /\ free_chunks(cache.c.list_pool)
           = cache.c.max_capacity - Cardinality(cache.c.map)
    /\ (cache.op = "insert" /\ WasFull
        /\ Key(cache.name) \notin KeysOf(cache.before.map))
           => Cardinality(cache.c.map) = cache.c.max_capacity

\* a name was inserted into a full cache of CacheSize entries that did not
\* hold it
C24_Witness ==
    /\ cache.op = "insert" /\ WasFull
    /\ cache.c.max_capacity = CacheSize
    /\ Key(cache.name) \notin KeysOf(cache.before.map)
    /\ Cardinality(cache.c.map) = CacheSize
    /\ free_chunks(cache.c.map_pool) = 0

\* the names cached, in the order of the list mru
MruKeys(c) ==
    [i \in 1..Len(c.mru) |->
        Key((CHOOSE e \in c.map : e.node = c.mru[i].it).name)]

\* C25: when insert is called on a full name cache, the entry evicted is the
\* least-recently-used one, where the insertion of an entry and a successful
\* get count as a use: the list mru holds the cached names in the order of
\* their last use, and an insert into a full cache removes the name used
\* least recently and no other
C25_EvictsLeastRecentlyUsed ==
    /\ MruKeys(cache.c) = cache.used
    /\ (cache.op = "insert" /\ WasFull) =>
           KeysOf(cache.c.map)
               = (KeysOf(cache.before.map)
                    \ {cache.wasused[Len(cache.wasused)]})
                 \cup {Key(cache.name)}

\* an insert into a full cache of CacheSize entries evicted a name that had
\* been inserted after another one, which a get had used since
C25_Witness ==
    /\ cache.op = "insert" /\ WasFull
    /\ cache.c.max_capacity = CacheSize
    /\ Key(cache.name) \notin KeysOf(cache.before.map)
    /\ \E e \in cache.before.map :
         /\ Key(e.name) = cache.wasused[Len(cache.wasused)]
         /\ Key(e.name) \notin KeysOf(cache.c.map)
         /\ \E f \in cache.c.map : f \in cache.before.map /\ f.ctime < e.ctime

\* C26: get(host) returns the stored address if and only if an entry for host
\* is present and not expired, i.e. creation time + TTL > now; for an expired
\* entry (including the instant now = creation time + TTL) get returns absent
\* and removes the entry, returning exactly one map node and one list node to
\* their pools
C26_GetIffPresentAndNotExpired ==
    cache.op = "get" =>
        IF map_find(cache.before, cache.name) = {}
        THEN ~cache.ret /\ cache.c.map = cache.before.map
        ELSE \A e \in map_find(cache.before, cache.name) :
               IF e.ctime + cache.before.item_lifetime > cache.before.now
               THEN cache.ret /\ cache.host_ip = e.host_ip
                    /\ cache.c.map = cache.before.map
               ELSE /\ ~cache.ret
                    /\ cache.c.map = cache.before.map \ {e}
                    /\ free_chunks(cache.c.map_pool)
                           = free_chunks(cache.before.map_pool) + 1
                    /\ free_chunks(cache.c.list_pool)
                           = free_chunks(cache.before.list_pool) + 1

\* C40: an insert with a name that is already cached leaves the set of
\* cached names and the stored address of every other entry unchanged,
\* whether or not the cache is full: no entry is evicted to make room for a
\* name that is present
C40_InsertOfCachedNameKeepsOthers ==
    (cache.op = "insert" /\ Key(cache.name) \in KeysOf(cache.before.map)) =>
        /\ KeysOf(cache.c.map) = KeysOf(cache.before.map)
        /\ \A e \in cache.before.map :
             Key(e.name) /= Key(cache.name) =>
                 \E f \in cache.c.map :
                     Key(f.name) = Key(e.name) /\ f.host_ip = e.host_ip

-----------------------------------------------------------------------------
(* SpecStol: buffer::stol is called on numbers written with a sign, leading  *)
(* blanks or a 0x prefix, digits and a tail (src/test/stol.cc), next to the  *)
(* strtol of the C library.                                                  *)

\* the number of characters of str from position pos on that satisfy Good
RunLength(str, pos, Good(_)) ==
    IF \E i \in pos..(Len(str) - 1) : ~Good(str[i + 1])
    THEN (CHOOSE i \in pos..(Len(str) - 1) :
              /\ ~Good(str[i + 1])
              /\ \A j \in pos..(i - 1) : Good(str[j + 1])) - pos
    ELSE IF pos > Len(str) THEN 0 ELSE Len(str) - pos

isspace(c) == c \in {" ", "\t", "\n", "\r"}

\* the value of the digits str[from + 1 .. to] in the base
RECURSIVE ValueOf(_, _, _, _)
ValueOf(str, from, to, base) ==
    IF to <= from THEN 0
    ELSE ValueOf(str, from, to - 1, base) * base + DigitVal(str[to])

\* strtol(str, &end, base) of the C library for base 10 or 16, with idx =
\* end - str: white space is skipped, then an optional sign, then for base 16
\* an optional 0x or 0X that a digit follows, then the longest run of digits;
\* without a digit nothing is consumed (EINVAL), and a value out of range is
\* LONG_MAX or LONG_MIN with ERANGE after all the digits
strtol(str, base) ==
    Let(RunLength(str, 0, isspace), LAMBDA sp :
    Let(sp < Len(str) /\ str[sp + 1] = "-", LAMBDA neg :
    Let(IF sp < Len(str) /\ str[sp + 1] \in {"-", "+"} THEN sp + 1 ELSE sp,
        LAMBDA sg :
    Let(IF /\ base = 16
           /\ sg + 2 < Len(str)
           /\ str[sg + 1] = "0" /\ str[sg + 2] \in {"x", "X"}
           /\ DigitVal(str[sg + 3]) >= 0 /\ DigitVal(str[sg + 3]) < 16
        THEN sg + 2 ELSE sg,
        LAMBDA from :
    Let(from + RunLength(str, from,
                         LAMBDA c : DigitVal(c) >= 0 /\ DigitVal(c) < base),
        LAMBDA to :
        IF to = from THEN [val |-> 0, idx |-> 0, errno |-> EINVAL]
        ELSE
        Let(ValueOf(str, from, to, base), LAMBDA v :
            IF neg /\ v > 0 - LONG_MIN
            THEN [val |-> LONG_MIN, idx |-> to, errno |-> ERANGE]
            ELSE IF ~neg /\ v > LONG_MAX
            THEN [val |-> LONG_MAX, idx |-> to, errno |-> ERANGE]
            ELSE [val |-> IF neg THEN 0 - v ELSE v, idx |-> to,
                  errno |-> 0]))))))

\* what may stand before the digits, the digits, and what may follow them
StolPrefixes == { <<>>, <<"-">>, <<"+">>, <<" ">>, <<"0", "x">>, <<"+", "-">> }
StolDigits == {"0", "1", "7", "8", "f", "F"}
StolTails == {"g", ".", " "}

InitStol ==
    /\ IdleParser /\ IdlePool /\ IdleProxy
    /\ alloc = NoAlloc
    /\ cache = NoCache
    /\ \E str \in StolPrefixes, base \in {10, 16} :
         conv = [called |-> TRUE, str |-> str, base |-> base, digits |-> 0,
                 ended |-> FALSE,
                 ret |-> stol(str, base), ref |-> strtol(str, base)]

\* stol and strtol on the string with one more character
StolOf(str, ended) ==
    [conv EXCEPT !.str = str, !.ended = ended,
                 !.digits = IF ended THEN @ ELSE @ + 1,
                 !.ret = stol(str, conv.base),
                 !.ref = strtol(str, conv.base)]

\* the number gets one more digit
StolDigit ==
    /\ conv.called /\ ~conv.ended
    /\ conv.digits < MaxDigits
    /\ \E d \in StolDigits : conv' = StolOf(Append(conv.str, d), FALSE)
    /\ UNCHANGED <<parservars, poolvars, proxyvars, alloc, cache>>

\* something that is no digit follows the number
StolTail ==
    /\ conv.called /\ ~conv.ended
    /\ \E t \in StolTails : conv' = StolOf(Append(conv.str, t), TRUE)
    /\ UNCHANGED <<parservars, poolvars, proxyvars, alloc, cache>>

NextStol ==
    \/ StolDigit
    \/ StolTail

SpecStol == InitStol /\ [][NextStol]_vars

\* C27: for every input string and base 10 or 16, buffer::stol returns the
\* same value and error outcome as the reference strtol, and where the
\* value is in range the same idx, the number of characters consumed
C27_StolAsStrtol ==
    conv.called =>
        /\ conv.ret.val = conv.ref.val
        /\ conv.ret.errno = conv.ref.errno
        /\ conv.ret.errno = 0 => conv.ret.idx = conv.ref.idx

-----------------------------------------------------------------------------
(* What the client is sent *)

\* C29: the bytes the frontend sends to the client for a response are the
\* bytes the backend received from the origin for it, in the same order and
\* each once, with no other bytes between them: at every moment what the
\* client was sent is the beginning of what the backend received (a 502 text
\* made by the proxy itself aside)
C29_ClientIsSentWhatBackendReceived ==
    net.e502 = "none" => IsPrefix(net.cout, net.brecv)

-----------------------------------------------------------------------------
(* SpecFrame: the origin answers with heads of every framing: a length, no   *)
(* length, chunked, both, over HTTP/1.0 and HTTP/1.1, with and without a     *)
(* Connection header.                                                        *)

R_NoContent == <<"C", "o", "n", "t", "e", "n", "t", "-", "L", "e", "n",
    "g", "t", "h", ":", " ", "0", "\r", "\n">>

ChunkedOk == <<"2", "\r", "\n", "o", "k", "\r", "\n", "0", "\r", "\n", "\r", "\n">>

FrameRequests ==
    { L_Get11 \o L_Host \o CRLF,
      L_Get11 \o L_Host \o L_Close \o CRLF }

FrameResponses ==
    { R_200_11 \o R_ContentLength \o CRLF \o <<"o", "k">>,
      R_200_11 \o R_NoContent \o CRLF,
      R_200_11 \o CRLF,
      R_200_11 \o L_Close \o CRLF \o <<"o", "k">>,
      R_200_11 \o L_Chunked \o CRLF \o ChunkedOk,
      R_200_11 \o L_Chunked \o R_NoContent \o CRLF \o ChunkedOk,
      R_200_10 \o CRLF \o <<"o", "k">>,
      R_200_10 \o R_ContentLength \o CRLF \o <<"o", "k">>,
      R_200_10 \o L_KeepAlive \o CRLF }

\* the client writes a request once the previous one was answered
FrameClientSend ==
    /\ sess.alive
    /\ ~net.awaiting /\ ~net.ceof
    /\ Len(net.creq) = 0
    /\ net.nreq < MaxRequests
    /\ \E req \in FrameRequests :
         net' = [net EXCEPT !.creq = req, !.req = req, !.nreq = @ + 1,
                            !.awaiting = TRUE, !.sresp = FALSE,
                            !.cout = <<>>, !.sout = <<>>,
                            !.brecv = <<>>]
    /\ UNCHANGED <<libvars, parservars, poolvars, sess>>

\* the origin answers the request it received
FrameServerRespond ==
    /\ sess.alive
    /\ net.conn = "up"
    /\ sess.progress = RESPONSE_STARTED
    /\ ~net.sresp /\ ~net.seof
    /\ \E resp \in FrameResponses :
         net' = [net EXCEPT !.sin = @ \o resp, !.sresp = TRUE]
    /\ UNCHANGED <<libvars, parservars, poolvars, sess>>

NextFrame ==
    \/ Accept
    \/ FrameClientSend
    \/ ClientDeliver
    \/ FrontendEvent
    \/ BackendConnected
    \/ BackendEvent
    \/ FrameServerRespond
    \/ ServerClose

SpecFrame == InitProxy /\ [][NextFrame]_vars

\* C30: when a response head finishes, Progress becomes
\* RESPONSE_WAIT_SHUTDOWN if and only if the response is not chunked,
\* content_length is unset, the response version is below 1.1 and keep_alive
\* is false; a chunked response or one with a non-zero Content-Length goes to
\* RESPONSE_HEAD_FINISHED, and every other response goes to RESPONSE_FINISHED
C30_ProgressAfterResponseHead ==
    net.rhead.k >= 1 =>
        LET h == net.rhead
            wait == /\ ~h.chunked
                    /\ h.content_length = cl_unset
                    /\ ~(h.response_version > 1000)
                    /\ ~h.keep_alive
            body == h.chunked \/ h.content_length \notin {0, cl_unset}
        IN h.progress = IF wait THEN RESPONSE_WAIT_SHUTDOWN
                        ELSE IF body THEN RESPONSE_HEAD_FINISHED
                        ELSE RESPONSE_FINISHED

-----------------------------------------------------------------------------
(* SpecOnce: one exchange that is not kept alive: a whole request with Host  *)
(* that asks for the connection to be closed, an origin that accepts the     *)
(* connection and answers with a Content-Length response, sent in segments,  *)
(* and peers that keep their sockets open.                                   *)

\* a request head of exactly BufSize bytes that is passed on as it is and asks
\* for the connection to be closed
ClosingFillingHead ==
    Let(L_Host \o L_Close \o L_NoTransform \o L_ContentLength \o CRLF,
        LAMBDA rest :
        L_PostTo(Pad(BufSize - Len(L_PostTo(<<>>)) - Len(rest))) \o rest)

OnceRequests ==
    { L_Get11 \o L_Host \o L_Close \o CRLF,
      L_Get10 \o L_Host \o CRLF,
      L_Post11 \o L_Host \o L_Close \o L_ContentLength \o CRLF
          \o <<"a", "b", "c">>,
      L_Post11 \o L_Host \o L_Close \o L_ContentLengthOf(BigBody) \o CRLF
          \o Pad(BigBody),
      ClosingFillingHead \o <<"a", "b", "c">> }

\* the last response is longer than both buffers together hold
OnceResponses ==
    { R_200_11 \o R_ContentLength \o CRLF \o <<"o", "k">>,
      R_200_11 \o R_NoContent \o CRLF,
      R_200_10 \o R_ContentLength \o CRLF \o <<"o", "k">>,
      R_200_11 \o L_Close \o R_ContentLength \o CRLF \o <<"o", "k">>,
      R_200_11 \o L_ContentLengthOf(2 * BufSize + Burst) \o CRLF
          \o Pad(2 * BufSize + Burst) }

\* the client writes its request
OnceClientSend ==
    /\ sess.alive
    /\ net.nreq = 0
    /\ \E req \in OnceRequests :
         net' = [net EXCEPT !.creq = req, !.req = req, !.nreq = 1,
                            !.awaiting = TRUE]
    /\ UNCHANGED <<libvars, parservars, poolvars, sess>>

\* the event loop runs conn_callback of the frontend watcher; ::connect is
\* in progress and will succeed
OnceFrontendEvent ==
    /\ FrontendPending
    /\ \E r \in {Frontend_conn_callback(TheWorld,
                                        sess.fe.events \cap FrontendReady,
                                        "pending_ok")} :
           Becomes(Snapshot(r.w))

\* the origin starts to answer the request it received
OnceServerRespond ==
    /\ sess.alive
    /\ net.conn = "up"
    /\ sess.progress = RESPONSE_STARTED
    /\ ~net.sresp /\ ~net.seof
    /\ \E resp \in OnceResponses :
         net' = [net EXCEPT !.srest = resp, !.sresp = TRUE]
    /\ UNCHANGED <<libvars, parservars, poolvars, sess>>

NextOnce ==
    \/ Accept
    \/ OnceClientSend
    \/ ClientDeliver
    \/ OnceFrontendEvent
    \/ BackendConnected
    \/ BackendEvent
    \/ OnceServerRespond
    \/ ServerDeliver

SpecOnce == InitProxy /\ [][NextOnce]_vars

\* a callback of SpecOnce that is run leaves another state than it found
OnceCallbacksAct ==
    /\ FrontendPending =>
           Snapshot(Frontend_conn_callback(
               TheWorld, sess.fe.events \cap FrontendReady, "pending_ok").w)
               /= TheWorld
    /\ ConnectPending =>
           \A err \in SockErrors :
               Snapshot(Backend_check_socket(TheWorld, err).w) /= TheWorld
    /\ BackendPending =>
           Snapshot(Backend_conn_callback(
               TheWorld, sess.be.events \cap BackendReady).w) /= TheWorld

\* ev_run is fair to the watchers, the kernel delivers what was written and
\* the origin answers what it received. The fairness of the three callbacks
\* is weak fairness written with their guards in place of ENABLED (see
\* OnceCallbacksAct).
SpecOnceFair ==
    /\ SpecOnce
    /\ WF_vars(ClientDeliver)
    /\ WF_vars(OnceServerRespond)
    /\ WF_vars(ServerDeliver)
    /\ ([]<>(~FrontendPending) \/ []<><<OnceFrontendEvent>>_vars)
    /\ ([]<>(~ConnectPending) \/ []<><<BackendConnected>>_vars)
    /\ ([]<>(~BackendPending) \/ []<><<BackendEvent>>_vars)

\* the exchange is over: the origin has written its whole response, the
\* backend has received it all, the client was sent every byte of it, Progress
\* was RESPONSE_FINISHED when the session was released, once, and the pool has
\* all its blocks again
Exchanged ==
    /\ ~sess.alive
    /\ sess.progress = RESPONSE_FINISHED
    /\ net.sresp /\ net.srest = <<>> /\ net.sin = <<>>
    /\ net.cout = net.brecv
    /\ net.releases = 1
    /\ free_chunks(pool) = PoolSize

\* C28: a single exchange that is not kept alive (a complete request with
\* Host, an origin that accepts the connection and sends a complete
\* Content-Length response, peers that keep their sockets open) eventually
\* reaches RESPONSE_FINISHED, every byte of the response is sent to the
\* client, and the session is then released exactly once, which returns the
\* free count of the pool to its baseline
C28_ExchangeEndsReleased ==
    /\ [](net.releases <= 1)
    /\ (sess.alive /\ net.nreq = 1) ~> Exchanged

-----------------------------------------------------------------------------
(* SpecMarker: the chunk-size marker of a chunked body arrives split into    *)
(* recv chunks at any positions, each handed to parse_body.                  *)

MarkerDigits == {"0", "1", "f"}

\* the digit strings of 1 to n digits
RECURSIVE DigitStrings(_)
DigitStrings(n) ==
    IF n = 0 THEN {<<>>}
    ELSE LET shorter == DigitStrings(n - 1) IN
         {<<>>} \cup {Append(ds, d) : ds \in shorter, d \in MarkerDigits}

Markers == {ds \o CRLF : ds \in DigitStrings(MaxMarker) \ {<<>>}}

InitMarker ==
    /\ parser = BodyParser0
    /\ mem = Mem0
    /\ fbuf = IOBuffer_new(0)
    /\ bbuf = IOBuffer_new(BufSize)
    /\ cin \in Markers
    /\ msg = cin
    /\ status = CONTINUE
    /\ calls = 0
    /\ asserts = TRUE
    /\ IdlePool /\ IdleProxy /\ IdleLib

\* one recv of n bytes of the marker followed by parse_body on them
FeedMarker ==
    /\ status = CONTINUE
    /\ \E n \in 1..Len(cin) :
         \E r \in {parse_body(parser, SubSeq(cin, 1, n))} :
         /\ parser' = r.p
         /\ status' = r.st
         /\ asserts' = (asserts /\ r.ok)
         /\ cin' = Drop(cin, n)
         /\ calls' = calls + 1
    /\ UNCHANGED <<libvars, mem, fbuf, bbuf, msg, poolvars, proxyvars>>

NextMarker == FeedMarker

SpecMarker == InitMarker /\ [][NextMarker]_vars

\* the exact value of the digits of the marker
MarkerValue == ValueOf(msg, 0, Len(msg) - Len(CRLF), 16)

\* C31: when the digits of a chunk-size marker are split across recv chunks
\* at any positions, the skip_chunk applied to the payload equals the exact
\* value of the concatenated digits, and a value that is not representable
\* makes parse_body return TERMINATE rather than wrap to a smaller length: a
\* marker that was taken whole without TERMINATE has a representable value,
\* which is the length to skip (the end of the body for 0)
C31_SplitMarkerExactOrTerminate ==
    (calls > 0 /\ Len(cin) = 0 /\ status /= TERMINATE) =>
        /\ MarkerValue <= SIZE_MAX
        /\ IF MarkerValue = 0 THEN parser.body_end
           ELSE parser.skip_chunk = MarkerValue

-----------------------------------------------------------------------------
(* SpecBad: chunked bodies that are not well formed, in arbitrary recv       *)
(* chunks.                                                                   *)

LastChunk == <<"0">> \o CRLF \o CRLF

\* markers with a sign, without a digit, with a wrong terminator, and
\* payloads that CR LF does not follow
BadBodies ==
    { <<"+", "1">> \o CRLF \o <<"a">> \o CRLF \o LastChunk,
      <<"-", "2">> \o CRLF \o <<"a">> \o CRLF \o LastChunk,
      <<"+">> \o CRLF \o <<"a">> \o CRLF \o LastChunk,
      CRLF \o <<"a">> \o CRLF \o LastChunk,
      <<";", "x">> \o CRLF \o <<"a">> \o CRLF \o LastChunk,
      <<"g">> \o CRLF \o <<"a">> \o CRLF \o LastChunk,
      <<"1", " ">> \o CRLF \o <<"a">> \o CRLF \o LastChunk,
      <<"1", "g">> \o CRLF \o <<"a">> \o CRLF \o LastChunk,
      <<"1">> \o CRLF \o <<"a", "b">> \o CRLF \o LastChunk,
      <<"1">> \o CRLF \o <<"a", CR, "b">> \o CRLF \o LastChunk,
      <<"2">> \o CRLF \o <<"a", "b", LF>> \o CRLF \o LastChunk }

InitBad ==
    /\ parser = BodyParser0
    /\ mem = Mem0
    /\ fbuf = IOBuffer_new(0)
    /\ bbuf = IOBuffer_new(BufSize)
    /\ cin \in BadBodies
    /\ msg = cin
    /\ status = CONTINUE
    /\ calls = 0
    /\ asserts = TRUE
    /\ IdlePool /\ IdleProxy /\ IdleLib

\* one recv of n bytes of the body followed by parse_body on them
FeedBad ==
    /\ status = CONTINUE
    /\ \E n \in 1..Len(cin) :
         \E r \in {parse_body(parser, SubSeq(cin, 1, n))} :
         /\ parser' = r.p
         /\ status' = r.st
         /\ asserts' = (asserts /\ r.ok)
         /\ cin' = Drop(cin, n)
         /\ calls' = calls + 1
    /\ UNCHANGED <<libvars, mem, fbuf, bbuf, msg, poolvars, proxyvars>>

NextBad == FeedBad

SpecBad == InitBad /\ [][NextBad]_vars

\* C32: at a chunk-size marker position, bytes that are not one or more
\* hexadecimal digits followed by ; or CR make parse_body return TERMINATE,
\* a marker that begins with + or - or has no digit in particular, and so
\* does a payload that CR LF does not follow: such a body is never taken to
\* its end
C32_MalformedBodyTerminates ==
    /\ status /= PROCEED
    /\ Len(cin) = 0 => status = TERMINATE

-----------------------------------------------------------------------------
(* SpecTrailer: chunked bodies whose zero-size chunk is followed by a        *)
(* trailer section, in arbitrary recv chunks. Each trailer ends with its     *)
(* first CR LF CR LF.                                                        *)

Trailers ==
    { <<"A", ":", " ", "b">> \o CRLF \o CRLF,
      <<"A", ":", "b">> \o CRLF \o <<"C", ":", "d">> \o CRLF \o CRLF,
      <<"A", CR, "b">> \o CRLF \o CRLF,
      <<"A", LF>> \o CRLF \o CRLF,
      <<"A", CR>> \o CRLF \o CRLF,
      <<"A">> \o CRLF \o <<CR>> \o CRLF \o CRLF,
      <<"A">> \o CRLF \o <<"b", CR, CR>> \o CRLF \o CRLF }

TrailerBodies ==
    {first \o <<"0">> \o CRLF \o t :
        first \in {<<>>, Chunk(<<"1">>, <<>>, <<"a">>)}, t \in Trailers}

InitTrailer ==
    /\ parser = BodyParser0
    /\ mem = Mem0
    /\ fbuf = IOBuffer_new(0)
    /\ bbuf = IOBuffer_new(BufSize)
    /\ cin \in TrailerBodies
    /\ msg = cin
    /\ status = CONTINUE
    /\ calls = 0
    /\ asserts = TRUE
    /\ IdlePool /\ IdleProxy /\ IdleLib

\* one recv of n bytes of the body followed by parse_body on them
FeedTrailer ==
    /\ status = CONTINUE
    /\ \E n \in 1..Len(cin) :
         \E r \in {parse_body(parser, SubSeq(cin, 1, n))} :
         /\ parser' = r.p
         /\ status' = r.st
         /\ asserts' = (asserts /\ r.ok)
         /\ cin' = Drop(cin, n)
         /\ calls' = calls + 1
    /\ UNCHANGED <<libvars, mem, fbuf, bbuf, msg, poolvars, proxyvars>>

NextTrailer == FeedTrailer

SpecTrailer == InitTrailer /\ [][NextTrailer]_vars

\* C33: when the zero-size chunk is followed by a trailer section, parse_body
\* returns PROCEED on the call that delivers the last byte of the first
\* CR LF CR LF of the trailer bytes, and not before, for any trailer content
\* (consecutive CR bytes included) and any partition into recv chunks
C33_TrailerEndsAtFirstCRLFCRLF ==
    calls > 0 => status = (IF Len(cin) = 0 THEN PROCEED ELSE CONTINUE)

-----------------------------------------------------------------------------
(* SpecTail: a well-formed chunked body followed on the connection by what   *)
(* the client sends next, in arbitrary recv chunks.                          *)

\* nothing, or the first bytes of the next request of the client
Tails == {<<>>, <<"G">>, <<"G", "E", "T", " ", "/">>}

TailBodies ==
    {cs \o last \o tail : cs \in ChunkSeqs(1), last \in LastChunkSet, tail \in Tails}

InitTail ==
    /\ parser = BodyParser0
    /\ mem = Mem0
    /\ fbuf = IOBuffer_new(0)
    /\ bbuf = IOBuffer_new(BufSize)
    /\ cin \in TailBodies
    /\ msg = cin
    /\ status = CONTINUE
    /\ calls = 0
    /\ asserts = TRUE
    /\ IdlePool /\ IdleProxy /\ IdleLib

\* one recv of n bytes of the connection followed by parse_body on them
FeedTail ==
    /\ status = CONTINUE
    /\ \E n \in 1..Len(cin) :
         \E r \in {parse_body(parser, SubSeq(cin, 1, n))} :
         /\ parser' = r.p
         /\ status' = r.st
         /\ asserts' = (asserts /\ r.ok)
         /\ cin' = Drop(cin, n)
         /\ calls' = calls + 1
    /\ UNCHANGED <<libvars, mem, fbuf, bbuf, msg, poolvars, proxyvars>>

NextTail == FeedTail

SpecTail == InitTail /\ [][NextTail]_vars

\* C35: the assertion recv_chunk.size() == 1 at the end of a chunked body
\* holds for every input: the final LF of the terminating chunk is the last
\* byte of the recv chunk it arrives in
C35_FinalLFEndsItsRecv ==
    status = PROCEED => asserts

-----------------------------------------------------------------------------
(* The assertions of the callbacks *)

\* C34: the assertion progress >= REQUEST_FINISHED of Backend::read_callback
\* holds in every reachable state: the backend never receives data while
\* Progress is REQUEST_STARTED or REQUEST_HEAD_FINISHED, also on a kept
\* connection that is idle between two requests
C34_BackendDataOnlyAfterRequest ==
    ~net.early

-----------------------------------------------------------------------------
(* The order of Progress                                                     *)

\* the step of a live session takes Progress to a smaller value
ProgressFalls == sess.alive /\ sess'.alive /\ sess'.progress < sess.progress

\* the keep-alive restart of Frontend::write_callback
KeepAliveRestart ==
    /\ sess.progress = RESPONSE_FINISHED
    /\ sess'.progress = REQUEST_STARTED
    /\ fbuf.n = 0 /\ bbuf.n = 0
    /\ parser.keep_alive

\* C36: Progress only moves forward in the order of the enumeration; the one
\* step to a smaller value is the keep-alive restart, from RESPONSE_FINISHED
\* to REQUEST_STARTED, taken with both buffers empty and keep_alive set
C36_ProgressOnlyForward ==
    [][ProgressFalls => KeepAliveRestart]_vars

\* a session was restarted under keep-alive and is at work on a later request
C36_Witness ==
    sess.alive /\ net.restarts > 0 /\ sess.progress > REQUEST_STARTED

-----------------------------------------------------------------------------
(* The buffers while a head is parsed in place                               *)

\* the least the origin writes at once
Piece == 8

\* a part of the response reaches the backend socket: a piece that does not
\* hold a whole head, or all that is left
ServerPiece ==
    /\ Len(net.srest) > 0
    /\ \E k \in {Min(Piece, Len(net.srest)), Len(net.srest)} :
         net' = [net EXCEPT !.sin = @ \o SubSeq(net.srest, 1, k),
                            !.srest = Drop(@, k)]
    /\ UNCHANGED <<libvars, parservars, poolvars, sess>>

\* a response with a length and one that ends when the origin closes
PieceResponses ==
    { R_200_11 \o R_ContentLength \o CRLF \o <<"o", "k">>,
      R_200_10 \o CRLF \o <<"o", "k">> }

\* the client writes its request
PieceClientSend ==
    /\ sess.alive
    /\ net.nreq = 0
    /\ \E req \in {L_Get11 \o L_Host \o CRLF} :
         net' = [net EXCEPT !.creq = req, !.req = req, !.nreq = 1,
                            !.awaiting = TRUE]
    /\ UNCHANGED <<libvars, parservars, poolvars, sess>>

\* the origin starts to answer the request it received
PieceServerRespond ==
    /\ sess.alive
    /\ net.conn = "up"
    /\ sess.progress = RESPONSE_STARTED
    /\ ~net.sresp /\ ~net.seof
    /\ \E resp \in PieceResponses :
         net' = [net EXCEPT !.srest = resp, !.sresp = TRUE]
    /\ UNCHANGED <<libvars, parservars, poolvars, sess>>

NextPiece ==
    \/ Accept
    \/ PieceClientSend
    \/ ClientDeliver
    \/ ClientExtra
    \/ FrontendEvent
    \/ BackendConnected
    \/ BackendEvent
    \/ PieceServerRespond
    \/ ServerPiece
    \/ FlowServerClose

\* SpecPiece: an exchange with the response arriving in pieces
SpecPiece == InitProxy /\ [][NextPiece]_vars

\* the watcher of the endpoint is started with EV_WRITE among its events
ArmedForWrite(e) == e.active /\ EV_WRITE \in e.events

\* what a buffer holds stays where it is and is only added to
Kept(b, c) == c.base = b.base /\ c.b = b.b /\ c.n >= b.n

\* the step leaves the session at the Progress at which the head that the
\* frontend, or the backend, has begun to receive is parsed
HeadStep(at) ==
    sess.alive /\ sess'.alive /\ sess.progress = at /\ sess'.progress = at

-----------------------------------------------------------------------------
(* The registrations of a live session                                       *)

\* the watcher of the endpoint is started for some event
Armed(e) == e.active /\ e.events /= {}

\* C38: a live session always has a readiness registration armed on one of
\* its endpoints, so that some event can still wake it
C38_LiveSessionIsArmed ==
    sess.alive => Armed(sess.fe) \/ Armed(sess.be)

-----------------------------------------------------------------------------
(* What the origin is sent                                                   *)

\* the bytes of a request behind its head, which ends at the first CR LF CR LF
BodyOf(req) ==
    LET ends == {i \in 1..(Len(req) - 3) : SubSeq(req, i, i + 3) = CRLF \o CRLF}
    IN  IF ends = {} THEN <<>>
        ELSE Drop(req, (CHOOSE i \in ends : \A j \in ends : i <= j) + 3)

\* the rewritten head of the request at work followed by its body
RequestAsSent == net.head.out \o BodyOf(net.head.req)

\* C39: the bytes sent to the origin for a request are the rewritten head
\* followed by the body bytes received from the client, in order and each
\* once, and all of them have been sent when Progress is RESPONSE_STARTED
C39_OriginIsSentHeadThenBody ==
    (sess.alive /\ net.nreq >= 1 /\ net.head.k = net.nreq) =>
        /\ IsPrefix(net.sout, RequestAsSent)
        /\ sess.progress = RESPONSE_STARTED => net.sout = RequestAsSent

=============================================================================
